---- MODULE Spec2Model ----
(***************************************************************************)
(* Runner lifecycle of the GitHub runner token service: the runners table, *)
(* the external registry (GitHub), provisioning, the reconciliation cycle  *)
(* (SyncService), the post-registration verification task, status refresh, *)
(* deprovisioning and the admin batch delete.                              *)
(*                                                                         *)
(* Every coroutine is cut at its await points on the registry: a registry  *)
(* call is served by the registry in the step that issues it, and its      *)
(* answer is consumed in the step that resumes the coroutine.  Between the *)
(* two, any other coroutine may run (asyncio, one event loop).             *)
(*                                                                         *)
(* Each operation works on its own ORM session (SessionLocal, with         *)
(* expire_on_commit at its default): an object read by a session keeps the *)
(* values it was loaded with until the session commits; a commit writes    *)
(* only the attributes the session changed and expires every object.       *)
(***************************************************************************)
EXTENDS Integers, Sequences, FiniteSets, Bags, TLC

\* ------------------------------------------------------------------ bounds
MaxRunners == 2      \* rows the runners table may hold
MaxGid == 2          \* ids the registry hands out
MaxTime == 2         \* clock ticks
MaxInflight == 2     \* suspended operations at a time
TokenTTL == 1        \* life of a registration token, in ticks
MaxSteps == 7        \* length of the behaviours explored by Spec
MaxSyncSteps == 7    \* length of the behaviours explored by SyncSpec
MaxLabelSteps == 8   \* length of the behaviours explored by LabelSpec
MaxTriggerSteps == 6 \* length of the behaviours explored by TriggerSpec
MaxExpiryTime == 3   \* clock ticks in ExpirySpec
MaxExpirySteps == 8  \* length of the behaviours explored by ExpirySpec
MaxShutdownSteps == 7 \* length of the behaviours explored by ShutdownSpec
MaxVerifySteps == 8
MaxDriftSteps == 10
MaxPrefixSteps == 5

\* ----------------------------------------------------------- configuration
\* Settings.cleanup_stale_runners_hours, in ticks of the model's clock.
cleanup_stale_runners_hours == 2
\* Settings.label_drift_delete_busy_runners at its default.
label_drift_delete_busy_runners == FALSE

\* ------------------------------------------------------------------ labels
\* A label is its sequence of characters, so that lower() and startswith()
\* are computed as the code computes them.
L_selfhosted == <<"s","e","l","f","-","h","o","s","t","e","d">>
L_a == <<"a">>
L_b == <<"b">>
L_x == <<"x">>
L_star == <<"*">>
L_linux == <<"l","i","n","u","x">>
L_ab == <<"a","b">>
L_SelfHosted == <<"S","e","l","f","-","H","o","s","t","e","d">>

Users == {"u1"}
TeamIds == {"t1"}
Names == {"n1", "n2"}

\* Label lists of provision requests and label lists the registry may hold.
ReqLabelSets == {{L_a}, {L_x}}
GhLabelSets == {{L_selfhosted, L_a}, {L_selfhosted, L_x}}
\* Label lists of a registry whose runners report their operating system and
\* whose labels are edited after registration.
LabelGhSets == {{L_selfhosted, L_a}, {L_selfhosted, L_linux, L_a},
                {L_selfhosted, L_a, L_b}}

NoPolicy == [exists |-> FALSE]
NoMax == -1
NoTime == -1
NoId == 0
NoToken == "none"
Token == "tok"
NullLabels == {<< >>}

LowerChar(c) ==
    CASE c = "S" -> "s" [] c = "E" -> "e" [] c = "L" -> "l" [] c = "F" -> "f"
      [] c = "H" -> "h" [] c = "O" -> "o" [] c = "T" -> "t" [] c = "D" -> "d"
      [] c = "A" -> "a" [] c = "B" -> "b" [] c = "X" -> "x"
      [] OTHER -> c

Lower(label) == [k \in 1..Len(label) |-> LowerChar(label[k])]

StartsWith(label, prefix) ==
    /\ Len(label) >= Len(prefix)
    /\ SubSeq(label, 1, Len(prefix)) = prefix

SYSTEM_LABEL_PREFIXES == {L_selfhosted}

\* LabelPolicyService._is_user_label
IsUserLabel(label) ==
    ~ \E prefix \in SYSTEM_LABEL_PREFIXES : StartsWith(Lower(label), prefix)

\* re.match(pattern, label) for the patterns of the model: a pattern is a
\* literal text (it matches a label that starts with it) or is not a regular
\* expression at all (re.error, skipped).
PatternMatches(pattern, label) ==
    /\ pattern.valid
    /\ StartsWith(label, pattern.text)

\* ---------------------------------------------------------------- policies
\* A LabelPolicy row (models.LabelPolicy), or NoPolicy when the user has none.
Policy(allowed, patterns, max) ==
    [exists |-> TRUE, allowed_labels |-> allowed, label_patterns |-> patterns,
     max_runners |-> max]

\* The policy tables the model starts from: u1 is restricted to the labels a
\* and b and to one runner.
PolicyConfigs ==
    { [u \in Users |-> IF u = "u1" THEN Policy({L_a, L_b}, << >>, 1) ELSE NoPolicy] }

\* A Team row (models.Team) as validate_labels_for_team reads it, or NoTeam
\* when no row has the id.
NoTeam == [exists |-> FALSE]
Team(is_active, required, patterns) ==
    [exists |-> TRUE, is_active |-> is_active, required_labels |-> required,
     optional_label_patterns |-> patterns]

\* The teams table the model starts from.
TeamConfigs ==
    { [t \in TeamIds |-> Team(TRUE, {L_a}, << >>)] }

\* No call made yet to the evaluator.
NoCall == [op |-> "none"]

\* The label sets the evaluator is called with.
EvalLabels == {L_SelfHosted, L_linux, L_a, L_b, L_x, L_ab}
EvalLabelSets == SUBSET EvalLabels

\* Regular expressions of the policies: "a" and "x" (each matches the labels
\* that start with it) and one that does not compile.
P_a == [valid |-> TRUE, text |-> L_a]
P_x == [valid |-> TRUE, text |-> L_x]
P_bad == [valid |-> FALSE, text |-> L_x]

\* The policies and teams the evaluator is called under.
EvalPolicyConfigs ==
    { [u \in Users |-> p] :
        p \in {NoPolicy,
               Policy({L_star}, << >>, NoMax),
               Policy({L_a}, << >>, 1),
               Policy({L_b}, <<P_a>>, NoMax),
               Policy({L_b}, <<P_bad, P_a>>, NoMax),
               Policy({L_a}, <<P_bad>>, NoMax)} }
EvalTeamConfigs ==
    { [t \in TeamIds |-> team] :
        team \in {NoTeam,
                  Team(FALSE, {L_a}, << >>),
                  Team(TRUE, {}, << >>),
                  Team(TRUE, {L_a}, << >>),
                  Team(TRUE, {L_a}, <<P_x>>),
                  Team(TRUE, {L_SelfHosted, L_a}, <<P_bad, P_a>>),
                  Team(TRUE, {L_b}, <<P_bad>>)} }

VARIABLES
    runners,    \* the runners table (committed rows), in insertion order
    policies,   \* the label_policies table: user -> policy or NoPolicy
    events,     \* the security_events table
    gh,         \* the runners the registry holds
    nextGid,    \* the next id the registry assigns
    now,        \* the clock
    prov,       \* provision_runner calls suspended on the credential call
    verify,     \* the verification task of each runner row
    sync,       \* the reconciliation cycle (sync_all_runners)
    refresh,    \* an update_runner_status call suspended on the registry
    deprov,     \* a deprovision_runner call suspended on the registry
    batch,      \* a batch_delete_runners call suspended on the registry
    single,     \* a sync_runner call suspended on the registry
    manual,     \* the cycle run by the admin endpoint trigger_sync
    sync_task,  \* main._sync_task, the task of run_sync_loop
    teams,      \* the teams table: team id -> team or NoTeam
    evaluated,  \* the last call made to the policy evaluator alone
    steps       \* the steps taken so far

vars == <<runners, policies, events, gh, nextGid, now, prov, verify, sync,
          refresh, deprov, batch, single, manual, sync_task, teams,
          evaluated, steps>>

Statuses == {"pending", "online", "offline", "deleted"}
NonTerminal == {"pending", "online", "offline"}

RowIds == 1..Len(runners)

\* The rows of `table` that satisfy Test, in table order.
RECURSIVE SelectIds(_, _, _)
SelectIds(table, Test(_), k) ==
    IF k > Len(table) THEN << >>
    ELSE IF Test(table[k]) THEN <<k>> \o SelectIds(table, Test, k + 1)
    ELSE SelectIds(table, Test, k + 1)

\* -------------------------------------------------------- policy evaluator
\* LabelPolicyService.get_policy
get_policy(user_identity) == policies[user_identity]

\* A validate_labels that never raises.
validate_labels_permissive(user_identity, requested_labels) == {}

\* LabelPolicyService.validate_labels: the invalid labels it raises
\* LabelPolicyViolation with; the empty set when it returns normally.
validate_labels(user_identity, requested_labels) ==
    LET policy == get_policy(user_identity) IN
    IF ~policy.exists THEN {}
    ELSE IF L_star \in policy.allowed_labels THEN {}
    ELSE LET user_labels == {l \in requested_labels : IsUserLabel(l)}
             patterns == policy.label_patterns
         IN {l \in user_labels :
                /\ l \notin policy.allowed_labels
                /\ ~ \E k \in 1..Len(patterns) : PatternMatches(patterns[k], l)}

\* A check_runner_quota that never raises.
check_runner_quota_never(user_identity, current_count) == FALSE

\* LabelPolicyService.check_runner_quota: TRUE when it raises ValueError.
check_runner_quota(user_identity, current_count) ==
    LET policy == get_policy(user_identity) IN
    /\ policy.exists
    /\ policy.max_runners # NoMax
    /\ current_count >= policy.max_runners

\* LabelPolicyService.validate_labels_for_team: the exception it raises, with
\* its invalid_labels, or "none" when it returns normally.
validate_labels_for_team(team_id, requested_labels) ==
    LET team == teams[team_id] IN
    IF ~team.exists THEN [error |-> "ValueError", invalid_labels |-> {}]
    ELSE IF ~team.is_active THEN [error |-> "ValueError", invalid_labels |-> {}]
    ELSE LET required_labels == team.required_labels
             optional_patterns == team.optional_label_patterns
             user_labels == {l \in requested_labels : IsUserLabel(l)}
             missing_required == required_labels \ user_labels
             invalid_labels ==
                 {l \in user_labels :
                     /\ l \notin required_labels
                     /\ ~ \E k \in 1..Len(optional_patterns) :
                            PatternMatches(optional_patterns[k], l)}
         IN IF missing_required # {}
            THEN [error |-> "LabelPolicyViolation", invalid_labels |-> missing_required]
            ELSE IF invalid_labels # {}
            THEN [error |-> "LabelPolicyViolation", invalid_labels |-> invalid_labels]
            ELSE [error |-> "none", invalid_labels |-> {}]

\* LabelPolicyService.verify_labels_match
verify_labels_match(expected_labels, actual_labels) ==
    LET expected_set == {l \in expected_labels : IsUserLabel(l)}
        actual_set == {l \in actual_labels : IsUserLabel(l)}
        missing_labels == expected_set \ actual_set
        unexpected_labels == actual_set \ expected_set
    IN missing_labels \cup unexpected_labels

\* LabelPolicyService.log_security_event: the SecurityEvent row it adds.  The
\* table is kept as the set of its rows without id and timestamp.
SecurityEvent(event_type, severity, user_identity, runner_id, action_taken) ==
    [event_type |-> event_type, severity |-> severity,
     user_identity |-> user_identity, runner_id |-> runner_id,
     action_taken |-> action_taken]

\* ----------------------------------------------------------------- registry
\* GitHubRunnerInfo
GitHubRunnerInfo(id, name, status, busy, labels) ==
    [id |-> id, name |-> name, status |-> status, busy |-> busy, labels |-> labels]

NotFound == [id |-> NoId]

\* GitHubClient.list_runners, as the registry serves it.
list_runners == gh

\* GitHubClient.get_runner_by_name over a listing.
get_runner_by_name(listing, name) ==
    IF \E r \in listing : r.name = name
    THEN CHOOSE r \in listing : r.name = name
    ELSE NotFound

\* GitHubClient.get_runner_by_id
get_runner_by_id(listing, id) ==
    IF \E r \in listing : r.id = id
    THEN CHOOSE r \in listing : r.id = id
    ELSE NotFound

\* A delete_runner that removes nothing.
delete_runner_skipped(registry, id, fails) == registry

\* GitHubClient.delete_runner, as the registry serves it: the registry after
\* the call.  A call that fails leaves the registry as it was.
delete_runner(registry, id, fails) ==
    IF fails THEN registry ELSE {r \in registry : r.id # id}

\* What a delete_runner call tells its caller: it raised, it returned False
\* (the registry has no such runner) or it returned True.
delete_answer(registry, id, fails) ==
    IF fails THEN "raised"
    ELSE IF \E r \in registry : r.id = id THEN "deleted"
    ELSE "not_found"

\* ------------------------------------------------------------- ORM session
\* An object of a session: the row as loaded (ld), the row as the coroutine
\* has changed it (wk), and whether a commit has expired it (exp).
Loaded(row) == [exp |-> FALSE, ld |-> row, wk |-> row]

\* The UPDATE a flush issues for one object: the attributes whose value
\* differs from the loaded one.
MergeRow(dbrow, obj) ==
    IF obj.exp THEN dbrow
    ELSE [f \in DOMAIN dbrow |-> IF obj.wk[f] # obj.ld[f] THEN obj.wk[f] ELSE dbrow[f]]

\* Session.commit on the objects `sess` (row id -> object): the table after
\* the flush.
Flush(table, sess) ==
    [k \in 1..Len(table) |->
        IF k \in DOMAIN sess THEN MergeRow(table[k], sess[k]) ELSE table[k]]

\* Session.commit expires every object of the session.
Expire(sess) == [k \in DOMAIN sess |-> [sess[k] EXCEPT !.exp = TRUE]]

\* Reading an attribute of an expired object reloads the row.
Touch(table, sess, k) ==
    IF sess[k].exp THEN [sess EXCEPT ![k] = Loaded(table[k])] ELSE sess

\* --------------------------------------------------------------- the state
\* A Runner row as provision_runner creates it (models.Runner).
Runner(name, user, labels, method, plabels, gid, token, expires) ==
    [runner_name |-> name, provisioned_by |-> user, labels |-> labels,
     status |-> "pending", provisioning_method |-> method,
     provisioned_labels |-> plabels, github_runner_id |-> gid,
     registration_token |-> token, registration_token_expires_at |-> expires,
     created_at |-> now, registered_at |-> NoTime, deleted_at |-> NoTime]

IdleOp == [pc |-> "idle"]

\* SyncResult
SyncResult ==
    [updated |-> 0, deleted |-> 0, unchanged |-> 0, errors |-> 0,
     policy_violations |-> 0, label_drifts |-> 0]

\* SyncResult.to_dict()["total"]
Total(result) == result.updated + result.deleted + result.unchanged + result.errors

\* The cycle between two runs: `outcome` and `result` are what the last run
\* returned ("none" before the first run, the error's name when it raised), `loaded`,
\* `lists` and `deletes` count the runners it loaded and the registry calls
\* it made.
IdleSync(outcome, result, loaded, lists, deletes) ==
    [pc |-> "idle", outcome |-> outcome, result |-> result, loaded |-> loaded,
     lists |-> lists, deletes |-> deletes]

Init ==
    /\ runners = << >>
    /\ policies \in PolicyConfigs
    /\ events = {}
    /\ gh = {}
    /\ nextGid = 1
    /\ now = 0
    /\ prov = EmptyBag
    /\ verify = << >>
    /\ sync = IdleSync("none", SyncResult, 0, 0, 0)
    /\ refresh = IdleOp
    /\ deprov = IdleOp
    /\ batch = IdleOp
    /\ single = IdleOp
    /\ manual = IdleSync("none", SyncResult, 0, 0, 0)
    /\ sync_task = "running"
    /\ teams \in TeamConfigs
    /\ evaluated = NoCall
    /\ steps = 0

\* The operations suspended on a registry call.
Inflight ==
    BagCardinality(prov)
    + (IF sync.pc = "idle" THEN 0 ELSE 1)
    + (IF refresh.pc = "idle" THEN 0 ELSE 1)
    + (IF deprov.pc = "idle" THEN 0 ELSE 1)
    + (IF batch.pc = "idle" THEN 0 ELSE 1)
    + (IF single.pc = "idle" THEN 0 ELSE 1)
    + (IF manual.pc = "idle" THEN 0 ELSE 1)
    + Cardinality({k \in 1..Len(verify) : verify[k].pc \in {"get", "del"}})

CanSuspend == Inflight < MaxInflight

\* ---------------------------------------------------- the registry's world
\* A runner registers with the registry under `name` (config.sh with a
\* registration token, which is valid for any name).
GhRegister(name, labels) ==
    /\ nextGid <= MaxGid
    /\ ~ \E r \in gh : r.name = name
    /\ gh' = gh \cup {GitHubRunnerInfo(nextGid, name, "online", FALSE, labels)}
    /\ nextGid' = nextGid + 1
    /\ UNCHANGED <<runners, policies, events, now, prov, verify, sync, refresh,
                   deprov, batch, single>>

\* A registered runner goes online or offline.
GhSetStatus(r) ==
    /\ gh' = (gh \ {r}) \cup
             {[r EXCEPT !.status = IF r.status = "online" THEN "offline" ELSE "online",
                        !.busy = FALSE]}
    /\ UNCHANGED <<runners, policies, events, nextGid, now, prov, verify, sync,
                   refresh, deprov, batch, single>>

\* A runner leaves the registry (an ephemeral runner after its job, or a
\* removal by hand).
GhRemove(r) ==
    /\ gh' = gh \ {r}
    /\ UNCHANGED <<runners, policies, events, nextGid, now, prov, verify, sync,
                   refresh, deprov, batch, single>>

\* A registered runner that is online picks up a job, or finishes it.
GhSetBusy(r) ==
    /\ r.status = "online"
    /\ gh' = (gh \ {r}) \cup {[r EXCEPT !.busy = ~r.busy]}
    /\ UNCHANGED <<runners, policies, events, nextGid, now, prov, verify, sync,
                   refresh, deprov, batch, single>>

\* The labels of a registered runner are edited in the registry.
GhSetLabels(r, labels) ==
    /\ labels # r.labels
    /\ gh' = (gh \ {r}) \cup {[r EXCEPT !.labels = labels]}
    /\ UNCHANGED <<runners, policies, events, nextGid, now, prov, verify, sync,
                   refresh, deprov, batch, single>>

\* Time passes.
Tick ==
    /\ now < MaxTime
    /\ now' = now + 1
    /\ UNCHANGED <<runners, policies, events, gh, nextGid, prov, verify, sync,
                   refresh, deprov, batch, single>>

\* Time passes, up to `limit`.
Elapse(limit) ==
    /\ now < limit
    /\ now' = now + 1
    /\ UNCHANGED <<runners, policies, events, gh, nextGid, prov, verify, sync,
                   refresh, deprov, batch, single>>

\* ------------------------------------------------------------ provisioning
\* RunnerService._is_runner_name_active
_is_runner_name_active(runner_name) ==
    \E k \in RowIds :
        /\ runners[k].runner_name = runner_name
        /\ runners[k].status # "deleted"

\* The statuses provision_runner counts against the quota.
QuotaStatuses == {"pending", "active", "offline"}

\* provision_runner's count of the user's active runners.
active_runner_count(user_identity) ==
    Cardinality({k \in RowIds :
        /\ runners[k].provisioned_by = user_identity
        /\ runners[k].status \in QuotaStatuses})

\* provision_runner with an exact name, up to its call of
\* generate_registration_token: the name check, the label check and the
\* quota check, each of which rejects the request.
ProvisionStart(user, runner_name, labels) ==
    /\ Len(runners) + BagCardinality(prov) < MaxRunners
    /\ CanSuspend
    /\ IF _is_runner_name_active(runner_name)
       THEN UNCHANGED <<events, prov>>
       ELSE IF validate_labels(user, labels) # {}
       THEN /\ events' = events \cup
                  {SecurityEvent("label_policy_violation", "medium", user, 0, "rejected")}
            /\ UNCHANGED prov
       ELSE IF check_runner_quota(user, active_runner_count(user))
       THEN /\ events' = events \cup
                  {SecurityEvent("quota_exceeded", "low", user, 0, "rejected")}
            /\ UNCHANGED prov
       ELSE /\ prov' = prov (+) SetToBag({[user |-> user, runner_name |-> runner_name,
                                           labels |-> labels, method |-> "registration_token",
                                           runner_id |-> NoId]})
            /\ UNCHANGED events
    /\ UNCHANGED <<runners, policies, gh, nextGid, now, verify, sync, refresh,
                   deprov, batch, single>>

\* provision_runner with a name prefix.  _generate_unique_runner_name draws
\* its suffix at random: candidates[n] is the name its n-th call returns.
max_attempts == 5

NameError == "ValueError"

CandidateLists == [1..(max_attempts + 1) -> Names]

_generate_unique_runner_name(candidates, n) == candidates[n]

\* The for loop over range(max_attempts), entered with the name of the
\* first call: an iteration breaks when the current name is not active and
\* draws the next name otherwise; the loop's else raises.
RECURSIVE prefix_runner_name(_, _)
prefix_runner_name(candidates, attempt) ==
    LET runner_name == _generate_unique_runner_name(candidates, attempt)
    IN IF attempt > max_attempts THEN NameError
       ELSE IF ~_is_runner_name_active(runner_name) THEN runner_name
       ELSE prefix_runner_name(candidates, attempt + 1)

\* provision_runner with a name prefix, up to its call of
\* generate_registration_token: it fails when no name was found, and goes on
\* with the label check and the quota check otherwise.
ProvisionPrefixStart(user, candidates, labels) ==
    LET runner_name == prefix_runner_name(candidates, 1)
    IN /\ evaluated' = [op |-> "provision_runner", candidates |-> candidates,
                        runner_name |-> runner_name]
       /\ IF runner_name = NameError
          THEN /\ Len(runners) + BagCardinality(prov) < MaxRunners
               /\ CanSuspend
               /\ UNCHANGED <<runners, policies, events, gh, nextGid, now, prov,
                              verify, sync, refresh, deprov, batch, single>>
          ELSE ProvisionStart(user, runner_name, labels)

\* provision_runner from the answer of generate_registration_token: when the
\* call failed nothing is stored; otherwise the Runner row is inserted and
\* the verification task is created.
ProvisionFinish(req, minted) ==
    /\ BagIn(req, prov)
    /\ req.method = "registration_token"
    /\ prov' = prov (-) SetToBag({req})
    /\ IF minted
       THEN /\ runners' = Append(runners,
                  Runner(req.runner_name, req.user, req.labels, "registration_token",
                         NullLabels, NoId, Token, now + TokenTTL))
            /\ verify' = Append(verify, [pc |-> "sleep", expected_labels |-> req.labels])
       ELSE UNCHANGED <<runners, verify>>
    /\ UNCHANGED <<policies, events, gh, nextGid, now, sync, refresh, deprov,
                   batch, single>>

\* JIT provisioning (the service method behind POST /api/v1/runners/jit), up
\* to the answer of generate_jit_config: the same three checks, then the
\* registry creates the runner record under the requested name, with the
\* requested labels and its system label, and answers with the record's id.
\* The call fails when the registry already holds the name.
JitProvisionStart(user, runner_name, labels) ==
    /\ Len(runners) + BagCardinality(prov) < MaxRunners
    /\ CanSuspend
    /\ IF _is_runner_name_active(runner_name)
       THEN UNCHANGED <<events, prov, gh, nextGid>>
       ELSE IF validate_labels(user, labels) # {}
       THEN /\ events' = events \cup
                  {SecurityEvent("label_policy_violation", "medium", user, 0, "rejected")}
            /\ UNCHANGED <<prov, gh, nextGid>>
       ELSE IF check_runner_quota(user, active_runner_count(user))
       THEN /\ events' = events \cup
                  {SecurityEvent("quota_exceeded", "low", user, 0, "rejected")}
            /\ UNCHANGED <<prov, gh, nextGid>>
       ELSE LET conflict == (\E r \in gh : r.name = runner_name) \/ nextGid > MaxGid
                runner_id == IF conflict THEN NoId ELSE nextGid
            IN /\ prov' = prov (+) SetToBag({[user |-> user, runner_name |-> runner_name,
                                              labels |-> labels, method |-> "jit",
                                              runner_id |-> runner_id]})
               /\ gh' = IF conflict THEN gh
                        ELSE gh \cup {GitHubRunnerInfo(nextGid, runner_name, "offline",
                                                      FALSE, labels \cup {L_selfhosted})}
               /\ nextGid' = IF conflict THEN nextGid ELSE nextGid + 1
               /\ UNCHANGED events
    /\ UNCHANGED <<runners, policies, now, verify, sync, refresh, deprov, batch,
                   single>>

\* JIT provisioning from the answer of generate_jit_config: nothing is stored
\* when the call failed; otherwise the Runner row is inserted with status
\* pending, the record's id (test_jit_provision_success reads it back right
\* after the request), the credential and provisioned_labels, and the
\* verification task is scheduled.
JitProvisionFinish(req) ==
    /\ BagIn(req, prov)
    /\ req.method = "jit"
    /\ prov' = prov (-) SetToBag({req})
    /\ IF req.runner_id # NoId
       THEN /\ runners' = Append(runners,
                  Runner(req.runner_name, req.user, req.labels, "jit", req.labels,
                         req.runner_id, Token, now + TokenTTL))
            /\ verify' = Append(verify, [pc |-> "sleep", expected_labels |-> req.labels])
       ELSE UNCHANGED <<runners, verify>>
    /\ UNCHANGED <<policies, events, gh, nextGid, now, sync, refresh, deprov,
                   batch, single>>

\* ------------------------------------------------ verification (detection)
\* _verify_labels_after_registration, from the end of its sleep to its call
\* of get_runner_by_name or get_runner_by_id.
VerifyWake(k) ==
    /\ k \in 1..Len(verify)
    /\ verify[k].pc = "sleep"
    /\ IF runners[k].status = "deleted"
       THEN verify' = [verify EXCEPT ![k] = [pc |-> "done"]]
       ELSE /\ CanSuspend
            /\ verify' = [verify EXCEPT ![k] =
                 [pc |-> "get", expected_labels |-> verify[k].expected_labels,
                  github_runner |->
                     IF runners[k].github_runner_id = NoId
                     THEN get_runner_by_name(list_runners, runners[k].runner_name)
                     ELSE get_runner_by_id(gh, runners[k].github_runner_id)]]
    /\ UNCHANGED <<runners, policies, events, gh, nextGid, now, prov, sync,
                   refresh, deprov, batch, single>>

\* _verify_labels_after_registration, from the registry's answer to its call
\* of delete_runner: on a mismatch the security event is logged, then the
\* delete is issued.  A failed fetch (fetch_fails) or a failure to log the
\* event (~logged) ends the task in the outer except.
VerifyFetched(k, fetch_fails, logged, fails) ==
    /\ k \in 1..Len(verify)
    /\ verify[k].pc = "get"
    /\ LET github_runner == verify[k].github_runner
           found == ~fetch_fails /\ github_runner # NotFound
           mismatched_labels ==
               IF found
               THEN verify_labels_match(verify[k].expected_labels, github_runner.labels)
               ELSE {}
       IN IF mismatched_labels = {} \/ ~logged
          THEN /\ verify' = [verify EXCEPT ![k] = [pc |-> "done"]]
               /\ UNCHANGED <<events, gh>>
          ELSE /\ events' = events \cup
                     {SecurityEvent("label_policy_violation", "high",
                                    runners[k].provisioned_by, k, "runner_deleted")}
               /\ gh' = delete_runner(gh, github_runner.id, fails)
               /\ verify' = [verify EXCEPT ![k] =
                     [pc |-> "del",
                      answer |-> delete_answer(gh, github_runner.id, fails)]]
    /\ UNCHANGED <<runners, policies, nextGid, now, prov, sync, refresh, deprov,
                   batch, single>>

\* The row as _verify_labels_after_registration leaves it ("Update local
\* state").
verify_mark_deleted(row) ==
    [row EXCEPT !.status = "deleted", !.deleted_at = now]

\* _verify_labels_after_registration, after delete_runner returned or raised.
VerifyDeleted(k) ==
    /\ k \in 1..Len(verify)
    /\ verify[k].pc = "del"
    /\ runners' = [runners EXCEPT ![k] = verify_mark_deleted(@)]
    /\ verify' = [verify EXCEPT ![k] = [pc |-> "done"]]
    /\ UNCHANGED <<policies, events, gh, nextGid, now, prov, sync, refresh,
                   deprov, batch, single>>

\* ---------------------------------------------------------- status refresh
\* RunnerService.get_runner: the rows .first() may return (the query has no
\* ORDER BY and no filter on the status).
get_runner(runner_name, user) ==
    {k \in RowIds :
        /\ runners[k].runner_name = runner_name
        /\ runners[k].provisioned_by = user}

\* update_runner_status on the registry's answer: the object as the coroutine
\* leaves it before the commit.
update_runner_status(row, github_runner) ==
    IF github_runner # NotFound
    THEN [row EXCEPT
            !.github_runner_id = github_runner.id,
            !.status = github_runner.status,
            !.registered_at = IF @ = NoTime THEN now ELSE @,
            !.registration_token = NoToken,
            !.registration_token_expires_at =
                IF row.registration_token # NoToken THEN NoTime ELSE @]
    ELSE IF row.status = "pending" THEN row
    ELSE [row EXCEPT !.status = "deleted", !.deleted_at = now]

\* update_runner_status up to its call of get_runner_by_name.
RefreshStart(user, runner_name, k) ==
    /\ refresh.pc = "idle"
    /\ k \in get_runner(runner_name, user)
    /\ CanSuspend
    /\ refresh' = [pc |-> "get", k |-> k, obj |-> Loaded(runners[k]),
                   github_runner |-> get_runner_by_name(list_runners, runner_name)]
    /\ UNCHANGED <<runners, policies, events, gh, nextGid, now, prov, verify,
                   sync, deprov, batch, single>>

\* update_runner_status from the registry's answer to its commit.  When the
\* call raised, only an audit entry is written.
RefreshFinish(fails) ==
    /\ refresh.pc = "get"
    /\ refresh' = IdleOp
    /\ IF fails
       THEN UNCHANGED runners
       ELSE runners' = [runners EXCEPT ![refresh.k] =
                MergeRow(@, [refresh.obj EXCEPT
                    !.wk = update_runner_status(@, refresh.github_runner)])]
    /\ UNCHANGED <<policies, events, gh, nextGid, now, prov, verify, sync,
                   deprov, batch, single>>

\* ----------------------------------------------------------- deprovisioning
\* deprovision_runner's "Update local state" and "Clear sensitive data".
deprovision_mark_deleted(row) ==
    [row EXCEPT !.status = "deleted", !.deleted_at = now,
                !.registration_token = NoToken,
                !.registration_token_expires_at = NoTime]

\* deprovision_runner up to its call of delete_runner; a runner that has no
\* external id is marked deleted at once.
DeprovStart(user, runner_name, k, fails) ==
    /\ deprov.pc = "idle"
    /\ k \in get_runner(runner_name, user)
    /\ runners[k].status # "deleted"
    /\ IF runners[k].github_runner_id # NoId
       THEN /\ CanSuspend
            /\ gh' = delete_runner(gh, runners[k].github_runner_id, fails)
            /\ deprov' = [pc |-> "del", k |-> k, obj |-> Loaded(runners[k]),
                          failed |-> fails]
            /\ UNCHANGED runners
       ELSE /\ runners' = [runners EXCEPT ![k] = deprovision_mark_deleted(@)]
            /\ UNCHANGED <<gh, deprov>>
    /\ UNCHANGED <<policies, events, nextGid, now, prov, verify, sync, refresh,
                   batch, single>>

\* deprovision_runner after delete_runner: it re-raises when the call raised,
\* and marks the runner deleted otherwise.
DeprovFinish ==
    /\ deprov.pc = "del"
    /\ deprov' = IdleOp
    /\ IF deprov.failed
       THEN UNCHANGED runners
       ELSE runners' = [runners EXCEPT ![deprov.k] =
                MergeRow(@, [deprov.obj EXCEPT !.wk = deprovision_mark_deleted(@)])]
    /\ UNCHANGED <<policies, events, gh, nextGid, now, prov, verify, sync,
                   refresh, batch, single>>

\* ------------------------------------------------------- admin batch delete
NoUser == "nobody"
Admin == "admin"

\* batch_delete_runners: what it stores on a runner.  The credential is left
\* as it is.
batch_mark_deleted(runner) ==
    [runner EXCEPT !.status = "deleted",
                   !.deleted_at = IF @ = NoTime THEN now ELSE @]

\* The loop of batch_delete_runners from position i of runners_to_delete to
\* the next await of delete_runner or to the end.  Each runner is committed
\* on its own; the commit expires the session's objects.
RECURSIVE BatchLoop(_, _, _, _)
BatchLoop(c, runners_to_delete, i, delete_fails) ==
    IF i > Len(runners_to_delete) THEN [c EXCEPT !.pc = "end"]
    ELSE
    LET k == runners_to_delete[i]
        sess1 == Touch(c.table, c.sess, k)
        runner == sess1[k].wk
    IN IF runner.github_runner_id # NoId /\ c.pc # "resumed"
       THEN [c EXCEPT !.sess = sess1, !.pc = "del", !.i = i,
                      !.registry = delete_runner(@, runner.github_runner_id, delete_fails)]
       ELSE LET sess2 == [sess1 EXCEPT ![k].wk = batch_mark_deleted(@)]
            IN BatchLoop([c EXCEPT !.table = Flush(c.table, sess2),
                                   !.sess = Expire(sess2), !.pc = "run"],
                         runners_to_delete, i + 1, delete_fails)

\* batch_delete_runners after a stretch of its loop: suspended on
\* delete_runner, or at its end, where it logs the security event.
AfterBatch(c, runners_to_delete) ==
    IF c.pc = "end"
    THEN /\ batch' = IdleOp
         /\ events' = events \cup
                {SecurityEvent("batch_delete_runners", "high", Admin, 0, "deleted")}
    ELSE /\ batch' = [pc |-> "del", runners_to_delete |-> runners_to_delete,
                      sess |-> c.sess, i |-> c.i]
         /\ UNCHANGED events

\* batch_delete_runners up to its first call of delete_runner: the request
\* names runners by id, or a user, or neither (every runner).
BatchStart(runner_ids, user_identity, delete_fails) ==
    /\ batch.pc = "idle"
    /\ CanSuspend
    /\ LET Wanted(row_id) ==
               IF runner_ids # {} THEN row_id \in runner_ids
               ELSE IF user_identity # NoUser
               THEN runners[row_id].provisioned_by = user_identity
               ELSE TRUE
           ids == {k \in RowIds : runners[k].status # "deleted" /\ Wanted(k)}
           runners_to_delete == SelectIds(runners, LAMBDA row : TRUE, 1)
           targets == SelectSeq(runners_to_delete, LAMBDA k : k \in ids)
           c == BatchLoop([pc |-> "run", table |-> runners,
                           sess |-> [k \in ids |-> Loaded(runners[k])],
                           registry |-> gh, i |-> 1],
                          targets, 1, delete_fails)
       IN /\ AfterBatch(c, targets)
          /\ runners' = c.table
          /\ gh' = c.registry
    /\ UNCHANGED <<policies, nextGid, now, prov, verify, sync, refresh, deprov,
                   single>>

\* batch_delete_runners from the answer of delete_runner, which it ignores.
BatchDeleted(delete_fails) ==
    /\ batch.pc = "del"
    /\ LET c == BatchLoop([pc |-> "resumed", table |-> runners, sess |-> batch.sess,
                           registry |-> gh, i |-> batch.i],
                          batch.runners_to_delete, batch.i, delete_fails)
       IN /\ AfterBatch(c, batch.runners_to_delete)
          /\ runners' = c.table
          /\ gh' = c.registry
    /\ UNCHANGED <<policies, nextGid, now, prov, verify, sync, refresh, deprov,
                   single>>

\* ------------------------------------------------------ reconciliation cycle
\* An update that stamps registered_at every time.
_update_runner_from_github_restamps(runner, github_runner) ==
    [runner EXCEPT
        !.status = github_runner.status,
        !.github_runner_id = github_runner.id,
        !.registered_at = now,
        !.registration_token = NoToken,
        !.registration_token_expires_at =
            IF runner.registration_token # NoToken THEN NoTime ELSE @]

\* An update that leaves the credential in place.
_update_runner_from_github_keeps_token(runner, github_runner) ==
    [runner EXCEPT
        !.status = github_runner.status,
        !.github_runner_id = github_runner.id,
        !.registered_at = IF @ = NoTime THEN now ELSE @]

\* SyncService._update_runner_from_github: the runner as it leaves it.
_update_runner_from_github(runner, github_runner) ==
    [runner EXCEPT
        !.status = github_runner.status,
        !.github_runner_id = github_runner.id,
        !.registered_at = IF @ = NoTime THEN now ELSE @,
        !.registration_token = NoToken,
        !.registration_token_expires_at =
            IF runner.registration_token # NoToken THEN NoTime ELSE @]

\* An update that always reports a change.
update_always_changed(runner, github_runner) == TRUE

\* SyncService._update_runner_from_github: its return value `changed`.
update_changed(runner, github_runner) ==
    \/ runner.status # github_runner.status
    \/ runner.github_runner_id # github_runner.id
    \/ runner.registered_at = NoTime
    \/ runner.registration_token # NoToken

\* A credential that counts as expired at the instant it expires.
_is_token_expired_inclusive(runner) ==
    IF runner.registration_token_expires_at = NoTime
    THEN runner.created_at < now - cleanup_stale_runners_hours
    ELSE runner.registration_token_expires_at <= now

\* SyncService._is_token_expired
_is_token_expired(runner) ==
    IF runner.registration_token_expires_at = NoTime
    THEN runner.created_at < now - cleanup_stale_runners_hours
    ELSE runner.registration_token_expires_at < now

\* A _mark_deleted that stores nothing.
_mark_deleted_nothing(runner) == runner

\* SyncService._mark_deleted
_mark_deleted(runner) ==
    [runner EXCEPT !.status = "deleted", !.deleted_at = now,
                   !.registration_token = NoToken,
                   !.registration_token_expires_at = NoTime]

\* A cycle that checks no runner for drift.
_check_label_drift_never(runner, github_runner) == "none"

\* SyncService._check_label_drift up to its decision: "none" (it returns
\* False without an event), "busy" (it logs and spares the runner) or
\* "delete".
_check_label_drift(runner, github_runner) ==
    IF runner.provisioning_method # "jit" THEN "none"
    ELSE IF runner.provisioned_labels = NullLabels THEN "none"
    ELSE LET original_labels == runner.provisioned_labels
             current_labels == github_runner.labels
             added_labels == current_labels \ original_labels
             removed_labels == original_labels \ current_labels
         IN IF added_labels = {} /\ removed_labels = {} THEN "none"
            ELSE IF github_runner.busy /\ ~label_drift_delete_busy_runners THEN "busy"
            ELSE "delete"

\* A loop whose except does not count the error.
Count_no_errors(result, field) ==
    IF field = "errors" THEN result ELSE [result EXCEPT ![field] = @ + 1]

\* The counters of one runner's outcome added to the cycle's result.
Count(result, field) == [result EXCEPT ![field] = @ + 1]

\* The body of sync_all_runners' loop, from the runner at position i of
\* local_runners to the next await of delete_runner or to the end of the
\* loop.  c is the coroutine's view: the table, its session, the registry,
\* the events and its result.  log_fails are the runners for which
\* log_security_event raises; delete_fails tells whether the delete_runner
\* call issued in this stretch raises.
RECURSIVE RunLoop(_, _, _, _, _, _)
RunLoop(c, local_runners, github_runners, i, log_fails, delete_fails) ==
    IF i > Len(local_runners) THEN [c EXCEPT !.pc = "end"]
    ELSE
    LET k == local_runners[i]
        sess1 == Touch(c.table, c.sess, k)
        runner == sess1[k].wk
        github_runner == get_runner_by_name(github_runners, runner.runner_name)
        c1 == [c EXCEPT !.sess = sess1]
        Suspend(path) ==
            [c1 EXCEPT !.registry = delete_runner(@, github_runner.id, delete_fails),
                       !.answer = delete_answer(c1.registry, github_runner.id,
                                                delete_fails),
                       !.deletes = @ + 1, !.pc = "del", !.i = i, !.path = path,
                       !.github_runner = github_runner]
        Store(cc, new_runner, field) ==
            RunLoop([cc EXCEPT !.sess[k].wk = new_runner,
                               !.result = Count(@, field)],
                    local_runners, github_runners, i + 1, log_fails, delete_fails)
        Update(cc) ==
            LET sess2 == Touch(cc.table, cc.sess, k)
                current == sess2[k].wk
            IN Store([cc EXCEPT !.sess = sess2],
                     _update_runner_from_github(current, github_runner),
                     IF update_changed(current, github_runner)
                     THEN "updated" ELSE "unchanged")
    IN
    IF github_runner # NotFound
    THEN IF validate_labels(runner.provisioned_by, github_runner.labels) # {}
         THEN Suspend("policy")
         ELSE LET drift == _check_label_drift(runner, github_runner) IN
              IF drift = "delete" THEN Suspend("drift")
              ELSE IF drift = "busy"
              THEN IF k \in log_fails
                   THEN Store(c1, runner, "errors")
                   ELSE Update([c1 EXCEPT
                           !.events = @ \cup
                               {SecurityEvent("label_drift_detected", "high",
                                              runner.provisioned_by, k, "logged_only")},
                           !.table = Flush(c1.table, c1.sess),
                           !.sess = Expire(c1.sess)])
              ELSE Update(c1)
    ELSE IF runner.status = "pending"
         THEN IF _is_token_expired(runner)
              THEN Store(c1, _mark_deleted(runner), "deleted")
              ELSE Store(c1, runner, "unchanged")
         ELSE Store(c1, _mark_deleted(runner), "deleted")

\* The cycle after a stretch of its loop: suspended on delete_runner, or
\* returned after the final commit.
AfterLoop(c, local_runners, github_runners) ==
    IF c.pc = "end"
    THEN /\ runners' = Flush(c.table, c.sess)
         /\ sync' = IdleSync("ok", c.result, Len(local_runners), c.lists, c.deletes)
    ELSE /\ runners' = c.table
         /\ sync' = [pc |-> "del", local_runners |-> local_runners,
                     github_runners |-> github_runners, sess |-> c.sess,
                     i |-> c.i, path |-> c.path, github_runner |-> c.github_runner,
                     answer |-> c.answer,
                     result |-> c.result, lists |-> c.lists, deletes |-> c.deletes]

\* The outcomes of the list_runners call of a cycle: the listing, or the
\* exception sync_all_runners raises.
ListFailures == {"SyncRateLimitedError", "SyncError", "SyncNetworkError"}

\* A cycle that loads the deleted runners too.
local_runners_all(table) ==
    SelectIds(table, LAMBDA row : TRUE, 1)

\* The runners a cycle loads: those not deleted, as row ids in table order.
local_runners_query(table) ==
    SelectIds(table, LAMBDA row : row.status # "deleted", 1)

\* A cycle that takes a failed listing for an empty one.
list_never_raises(answer) == FALSE

\* Whether sync_all_runners raises on the answer of list_runners.
list_raises(answer) == answer \in ListFailures

\* The coroutine's view when its loop starts.
LoopStart(table, sess, registry, log) ==
    [pc |-> "run", table |-> table, sess |-> sess, registry |-> registry,
     events |-> log, result |-> SyncResult, lists |-> 1, deletes |-> 0,
     i |-> 0, path |-> "", github_runner |-> NotFound, answer |-> ""]

\* A handler that marks the runner deleted before it logs the event.
after_delete_marks_first(c, local_runners, log_fails) ==
    LET k == local_runners[c.i]
        owner == c.sess[k].wk.provisioned_by
        event == IF c.path = "policy"
                 THEN SecurityEvent("label_policy_violation", "high", owner, k,
                                    "runner_deleted")
                 ELSE SecurityEvent("label_drift_detected", "high", owner, k,
                                    "runner_deleted")
        table1 == Flush(c.table, c.sess)
        sess1 == Touch(table1, Expire(c.sess), k)
    IN IF k \in log_fails
       THEN [c EXCEPT !.pc = "run",
                      !.sess = [@ EXCEPT ![k].wk = _mark_deleted(@)],
                      !.result = Count(@, "errors")]
       ELSE [c EXCEPT
               !.pc = "run",
               !.events = @ \cup {event},
               !.table = table1,
               !.sess = [sess1 EXCEPT ![k].wk = _mark_deleted(@)],
               !.result = Count(Count(@, IF c.path = "policy"
                                         THEN "policy_violations"
                                         ELSE "label_drifts"), "deleted")]

\* _handle_policy_violation and _check_label_drift after delete_runner
\* returned or raised, for the runner at position c.i: the security event
\* is logged (a commit), the runner is marked deleted and counted.  When
\* logging the event raises, the loop's except counts an error instead.
after_delete(c, local_runners, log_fails) ==
    LET k == local_runners[c.i]
        owner == c.sess[k].wk.provisioned_by
        event == IF c.path = "policy"
                 THEN SecurityEvent("label_policy_violation", "high", owner, k,
                                    "runner_deleted")
                 ELSE SecurityEvent("label_drift_detected", "high", owner, k,
                                    "runner_deleted")
        table1 == Flush(c.table, c.sess)
        sess1 == Touch(table1, Expire(c.sess), k)
    IN IF k \in log_fails
       THEN [c EXCEPT !.pc = "run", !.result = Count(@, "errors")]
       ELSE [c EXCEPT
               !.pc = "run",
               !.events = @ \cup {event},
               !.table = table1,
               !.sess = [sess1 EXCEPT ![k].wk = _mark_deleted(@)],
               !.result = Count(Count(@, IF c.path = "policy"
                                         THEN "policy_violations"
                                         ELSE "label_drifts"), "deleted")]

\* A whole cycle run without another coroutine in between: the view at the
\* end of the loop, before the final commit.
RECURSIVE RunCycle(_, _, _, _, _)
RunCycle(c, local_runners, github_runners, log_fails, delete_fails) ==
    LET c1 == IF c.pc = "del"
              THEN RunLoop(after_delete(c, local_runners, log_fails), local_runners,
                           github_runners, c.i + 1, log_fails, delete_fails)
              ELSE RunLoop(c, local_runners, github_runners, 1, log_fails,
                           delete_fails)
    IN IF c1.pc = "end" THEN c1
       ELSE RunCycle(c1, local_runners, github_runners, log_fails, delete_fails)

\* sync_all_runners up to its call of list_runners.  With no runner to sync
\* it returns an empty result without calling the registry.
SyncStart ==
    /\ sync.pc = "idle"
    /\ LET local_runners == local_runners_query(runners) IN
       IF local_runners = << >>
       THEN sync' = IdleSync("ok", SyncResult, 0, 0, 0)
       ELSE /\ CanSuspend
            /\ sync' = [pc |-> "list", local_runners |-> local_runners,
                        sess |-> [k \in {local_runners[j] : j \in 1..Len(local_runners)}
                                     |-> Loaded(runners[k])],
                        github_runners |-> list_runners]
    /\ UNCHANGED <<runners, policies, events, gh, nextGid, now, prov, verify,
                   refresh, deprov, batch, single>>

\* sync_all_runners from the answer of list_runners: it raises when the call
\* failed, and otherwise runs its loop.
SyncListed(answer, log_fails, delete_fails) ==
    /\ sync.pc = "list"
    /\ IF list_raises(answer)
       THEN /\ sync' = IdleSync(answer, SyncResult, Len(sync.local_runners), 1, 0)
            /\ UNCHANGED <<runners, events, gh>>
       ELSE LET c == RunLoop(LoopStart(runners, sync.sess, gh, events),
                             sync.local_runners, sync.github_runners, 1,
                             log_fails, delete_fails)
            IN /\ AfterLoop(c, sync.local_runners, sync.github_runners)
               /\ events' = c.events
               /\ gh' = c.registry
    /\ UNCHANGED <<policies, nextGid, now, prov, verify, refresh, deprov, batch,
                   single>>

\* The suspended cycle's view when it resumes.
Resumed ==
    [pc |-> "del", table |-> runners, sess |-> sync.sess, registry |-> gh,
     events |-> events, result |-> sync.result, lists |-> sync.lists,
     deletes |-> sync.deletes, i |-> sync.i, path |-> sync.path,
     github_runner |-> sync.github_runner, answer |-> sync.answer]

\* sync_all_runners from the answer of delete_runner to its next await or
\* to its end.
SyncDeleted(log_fails, delete_fails) ==
    /\ sync.pc = "del"
    /\ LET c == RunLoop(after_delete(Resumed, sync.local_runners, log_fails),
                        sync.local_runners, sync.github_runners, sync.i + 1,
                        log_fails, delete_fails)
       IN /\ AfterLoop(c, sync.local_runners, sync.github_runners)
          /\ events' = c.events
          /\ gh' = c.registry
    /\ UNCHANGED <<policies, nextGid, now, prov, verify, refresh, deprov, batch,
                   single>>

\* ------------------------------------------------- cleanup_expired_tokens
\* SyncService.cleanup_expired_tokens: the credential of every pending
\* runner whose credential has expired is cleared, in one commit.  The
\* coroutine has no await.
CleanupExpiredTokens ==
    /\ runners' = [k \in RowIds |->
          IF /\ runners[k].status = "pending"
             /\ runners[k].registration_token # NoToken
             /\ runners[k].registration_token_expires_at # NoTime
             /\ runners[k].registration_token_expires_at < now
          THEN [runners[k] EXCEPT !.registration_token = NoToken,
                                  !.registration_token_expires_at = NoTime]
          ELSE runners[k]]
    /\ UNCHANGED <<policies, events, gh, nextGid, now, prov, verify, sync,
                   refresh, deprov, batch, single>>

\* ---------------------------------------------------------------- shutdown
\* A run_sync_loop that leaves its loop when a cycle has failed.
LoopCycleStart_until_failure ==
    /\ sync_task = "running"
    /\ sync.pc = "idle"
    /\ sync.outcome \notin ListFailures
    /\ SyncStart

\* run_sync_loop starts a cycle (after its sleep, or at startup) as long as
\* its task has not been cancelled.
LoopCycleStart ==
    /\ sync_task = "running"
    /\ SyncStart

\* shutdown_event: _sync_task.cancel() raises CancelledError in the task at
\* the await it is suspended on.  In the sleep of run_sync_loop the loop's
\* except breaks.  In list_runners or delete_runner the error is no
\* Exception: it passes the handlers of sync_all_runners and of _run_sync,
\* whose finally closes the session with whatever it had not committed.
shutdown_event ==
    /\ sync_task = "running"
    /\ sync_task' = "cancelled"
    /\ sync' = IF sync.pc = "idle" THEN sync
               ELSE IdleSync("CancelledError", SyncResult, Len(sync.local_runners),
                             IF sync.pc = "list" THEN 1 ELSE sync.lists,
                             IF sync.pc = "list" THEN 0 ELSE sync.deletes)
    /\ UNCHANGED <<runners, policies, events, gh, nextGid, now, prov, verify,
                   refresh, deprov, batch, single>>

\* ------------------------------------------------------------ trigger_sync
\* The admin endpoint trigger_sync runs sync_all_runners in the request's
\* own coroutine and session, whatever the periodic loop is doing.  The
\* table a cycle leaves when its loop stops at c, and the coroutine it
\* leaves:
CycleTable(c) == IF c.pc = "end" THEN Flush(c.table, c.sess) ELSE c.table

CycleState(c, local_runners, github_runners) ==
    IF c.pc = "end"
    THEN IdleSync("ok", c.result, Len(local_runners), c.lists, c.deletes)
    ELSE [pc |-> "del", local_runners |-> local_runners,
          github_runners |-> github_runners, sess |-> c.sess,
          i |-> c.i, path |-> c.path, github_runner |-> c.github_runner,
          answer |-> c.answer,
          result |-> c.result, lists |-> c.lists, deletes |-> c.deletes]

\* trigger_sync up to the cycle's call of list_runners.
TriggerStart ==
    /\ manual.pc = "idle"
    /\ LET local_runners == local_runners_query(runners) IN
       IF local_runners = << >>
       THEN manual' = IdleSync("ok", SyncResult, 0, 0, 0)
       ELSE /\ CanSuspend
            /\ manual' = [pc |-> "list", local_runners |-> local_runners,
                          sess |-> [k \in {local_runners[j] : j \in 1..Len(local_runners)}
                                       |-> Loaded(runners[k])],
                          github_runners |-> list_runners]
    /\ UNCHANGED <<runners, policies, events, gh, nextGid, now, prov, verify,
                   sync, refresh, deprov, batch, single>>

\* trigger_sync from the answer of list_runners: the cycle raises (the
\* endpoint answers 500) or runs its loop.
TriggerListed(answer, log_fails, delete_fails) ==
    /\ manual.pc = "list"
    /\ IF list_raises(answer)
       THEN /\ manual' = IdleSync(answer, SyncResult, Len(manual.local_runners), 1, 0)
            /\ UNCHANGED <<runners, events, gh>>
       ELSE LET c == RunLoop(LoopStart(runners, manual.sess, gh, events),
                             manual.local_runners, manual.github_runners, 1,
                             log_fails, delete_fails)
            IN /\ runners' = CycleTable(c)
               /\ manual' = CycleState(c, manual.local_runners, manual.github_runners)
               /\ events' = c.events
               /\ gh' = c.registry
    /\ UNCHANGED <<policies, nextGid, now, prov, verify, sync, refresh, deprov,
                   batch, single>>

\* The triggered cycle's view when it resumes.
TriggerResumed ==
    [pc |-> "del", table |-> runners, sess |-> manual.sess, registry |-> gh,
     events |-> events, result |-> manual.result, lists |-> manual.lists,
     deletes |-> manual.deletes, i |-> manual.i, path |-> manual.path,
     github_runner |-> manual.github_runner, answer |-> manual.answer]

\* trigger_sync from the answer of delete_runner to the cycle's next await
\* or to its end.
TriggerDeleted(log_fails, delete_fails) ==
    /\ manual.pc = "del"
    /\ LET c == RunLoop(after_delete(TriggerResumed, manual.local_runners, log_fails),
                        manual.local_runners, manual.github_runners, manual.i + 1,
                        log_fails, delete_fails)
       IN /\ runners' = CycleTable(c)
          /\ manual' = CycleState(c, manual.local_runners, manual.github_runners)
          /\ events' = c.events
          /\ gh' = c.registry
    /\ UNCHANGED <<policies, nextGid, now, prov, verify, sync, refresh, deprov,
                   batch, single>>

\* ------------------------------------------------------------- sync_runner
\* sync_runner up to its call of get_runner_by_name.  A deleted runner is
\* returned as it is, without a call.
SyncRunnerStart(k) ==
    /\ single.pc = "idle"
    /\ k \in RowIds
    /\ IF runners[k].status = "deleted"
       THEN UNCHANGED single
       ELSE /\ CanSuspend
            /\ single' = [pc |-> "get", k |-> k, obj |-> Loaded(runners[k]),
                          github_runner |->
                             get_runner_by_name(list_runners, runners[k].runner_name)]
    /\ UNCHANGED <<runners, policies, events, gh, nextGid, now, prov, verify,
                   sync, refresh, deprov, batch>>

\* sync_runner from the answer of get_runner_by_name to its commit; when the
\* call raised, the exception leaves the coroutine before the commit.
SyncRunnerFinish(fails) ==
    /\ single.pc = "get"
    /\ single' = IdleOp
    /\ LET runner == single.obj.wk
           github_runner == single.github_runner
           stored == IF github_runner # NotFound
                     THEN _update_runner_from_github(runner, github_runner)
                     ELSE IF runner.status # "pending"
                     THEN _mark_deleted(runner)
                     ELSE runner
       IN IF fails
          THEN UNCHANGED runners
          ELSE runners' = [runners EXCEPT ![single.k] =
                              MergeRow(@, [single.obj EXCEPT !.wk = stored])]
    /\ UNCHANGED <<policies, events, gh, nextGid, now, prov, verify, sync,
                   refresh, deprov, batch>>

\* ------------------------------------------------------------ specification
EnvNext ==
    \/ \E name \in Names, labels \in GhLabelSets : GhRegister(name, labels)
    \/ \E r \in gh : GhSetStatus(r)
    \/ \E r \in gh : GhRemove(r)
    \/ Tick

Next ==
    /\ steps < MaxSteps
    /\ steps' = steps + 1
    /\ UNCHANGED <<manual, sync_task, teams, evaluated>>
    /\ \/ EnvNext
       \/ \E user \in Users, name \in Names, labels \in ReqLabelSets :
             ProvisionStart(user, name, labels)
       \/ \E req \in BagToSet(prov), minted \in BOOLEAN : ProvisionFinish(req, minted)
       \/ \E user \in Users, name \in Names, labels \in ReqLabelSets :
             JitProvisionStart(user, name, labels)
       \/ \E req \in BagToSet(prov) : JitProvisionFinish(req)
       \/ \E k \in RowIds : VerifyWake(k)
       \/ \E k \in RowIds, fetch_fails, logged, fails \in BOOLEAN :
             VerifyFetched(k, fetch_fails, logged, fails)
       \/ \E k \in RowIds : VerifyDeleted(k)
       \/ \E user \in Users, name \in Names, k \in RowIds : RefreshStart(user, name, k)
       \/ \E fails \in BOOLEAN : RefreshFinish(fails)
       \/ \E user \in Users, name \in Names, k \in RowIds, fails \in BOOLEAN :
             DeprovStart(user, name, k, fails)
       \/ DeprovFinish
       \/ SyncStart
       \/ \E answer \in {"ok"} \cup ListFailures, log_fails \in SUBSET RowIds,
             delete_fails \in BOOLEAN : SyncListed(answer, log_fails, delete_fails)
       \/ \E log_fails \in SUBSET RowIds, delete_fails \in BOOLEAN :
             SyncDeleted(log_fails, delete_fails)
       \/ \E k \in RowIds : SyncRunnerStart(k)
       \/ \E fails \in BOOLEAN : SyncRunnerFinish(fails)
       \/ \E runner_ids \in {{}} \cup {{k} : k \in RowIds},
             user_identity \in Users \cup {NoUser}, delete_fails \in BOOLEAN :
             BatchStart(runner_ids, user_identity, delete_fails)
       \/ \E delete_fails \in BOOLEAN : BatchDeleted(delete_fails)

Spec == Init /\ [][Next]_vars

\* Provisioning, deprovisioning and reconciliation alone, followed further.
SyncNext ==
    /\ steps < MaxSyncSteps
    /\ steps' = steps + 1
    /\ UNCHANGED <<manual, sync_task, teams, evaluated>>
    /\ \/ EnvNext
       \/ \E user \in Users, name \in Names, labels \in ReqLabelSets :
             ProvisionStart(user, name, labels)
       \/ \E req \in BagToSet(prov), minted \in BOOLEAN : ProvisionFinish(req, minted)
       \/ \E user \in Users, name \in Names, labels \in ReqLabelSets :
             JitProvisionStart(user, name, labels)
       \/ \E req \in BagToSet(prov) : JitProvisionFinish(req)
       \/ \E user \in Users, name \in Names, k \in RowIds, fails \in BOOLEAN :
             DeprovStart(user, name, k, fails)
       \/ DeprovFinish
       \/ SyncStart
       \/ \E answer \in {"ok"} \cup ListFailures, log_fails \in SUBSET RowIds,
             delete_fails \in BOOLEAN : SyncListed(answer, log_fails, delete_fails)
       \/ \E log_fails \in SUBSET RowIds, delete_fails \in BOOLEAN :
             SyncDeleted(log_fails, delete_fails)
       \/ \E k \in RowIds : SyncRunnerStart(k)
       \/ \E fails \in BOOLEAN : SyncRunnerFinish(fails)

SyncSpec == Init /\ [][SyncNext]_vars

\* Provisioning and reconciliation against a registry whose runners carry
\* operating-system labels, take jobs and have their labels edited.
LabelNext ==
    /\ steps < MaxLabelSteps
    /\ steps' = steps + 1
    /\ UNCHANGED <<manual, sync_task, teams, evaluated>>
    /\ \/ \E name \in Names, labels \in LabelGhSets : GhRegister(name, labels)
       \/ \E r \in gh : GhSetStatus(r)
       \/ \E r \in gh : GhSetBusy(r)
       \/ \E r \in gh, labels \in LabelGhSets : GhSetLabels(r, labels)
       \/ \E user \in Users, name \in Names, labels \in ReqLabelSets :
             ProvisionStart(user, name, labels)
       \/ \E req \in BagToSet(prov), minted \in BOOLEAN : ProvisionFinish(req, minted)
       \/ \E user \in Users, name \in Names, labels \in ReqLabelSets :
             JitProvisionStart(user, name, labels)
       \/ \E req \in BagToSet(prov) : JitProvisionFinish(req)
       \/ SyncStart
       \/ \E answer \in {"ok"} \cup ListFailures, log_fails \in SUBSET RowIds,
             delete_fails \in BOOLEAN : SyncListed(answer, log_fails, delete_fails)
       \/ \E log_fails \in SUBSET RowIds, delete_fails \in BOOLEAN :
             SyncDeleted(log_fails, delete_fails)

LabelSpec == Init /\ [][LabelNext]_vars

\* JIT runners whose registry record changes labels and picks up or finishes
\* jobs between reconciliation cycles.
DriftNext ==
    /\ steps < MaxDriftSteps
    /\ steps' = steps + 1
    /\ UNCHANGED <<manual, sync_task, teams, evaluated>>
    /\ \/ \E r \in gh : GhSetStatus(r)
       \/ \E r \in gh : GhSetBusy(r)
       \/ \E r \in gh, labels \in LabelGhSets : GhSetLabels(r, labels)
       \/ \E user \in Users, name \in Names, labels \in ReqLabelSets :
             JitProvisionStart(user, name, labels)
       \/ \E req \in BagToSet(prov) : JitProvisionFinish(req)
       \/ SyncStart
       \/ \E answer \in {"ok"} \cup ListFailures, log_fails \in SUBSET RowIds,
             delete_fails \in BOOLEAN : SyncListed(answer, log_fails, delete_fails)
       \/ \E log_fails \in SUBSET RowIds, delete_fails \in BOOLEAN :
             SyncDeleted(log_fails, delete_fails)

DriftSpec == Init /\ [][DriftNext]_vars

\* The periodic loop for as long as the application runs: run_sync_loop
\* starts a cycle after every interval, and every registry call of a cycle
\* returns or raises.  Users provision and runners register when they
\* choose to.
SyncCycleStep ==
    \/ SyncStart
    \/ \E answer \in {"ok"} \cup ListFailures, log_fails \in SUBSET RowIds,
          delete_fails \in BOOLEAN : SyncListed(answer, log_fails, delete_fails)
    \/ \E log_fails \in SUBSET RowIds, delete_fails \in BOOLEAN :
          SyncDeleted(log_fails, delete_fails)

LiveNext ==
    /\ UNCHANGED <<manual, sync_task, teams, evaluated, steps>>
    /\ \/ \E name \in Names, labels \in GhLabelSets : GhRegister(name, labels)
       \/ \E user \in Users, name \in Names, labels \in ReqLabelSets :
             ProvisionStart(user, name, labels)
       \/ \E req \in BagToSet(prov), minted \in BOOLEAN : ProvisionFinish(req, minted)
       \/ SyncCycleStep

\* The loop starts a cycle whenever it can go on doing so, and a cycle that
\* is waiting for the registry gets its answer or its error.
LiveSpec ==
    /\ Init
    /\ [][LiveNext]_vars
    /\ WF_vars(SyncStart /\ UNCHANGED <<manual, sync_task, teams, evaluated, steps>>)
    /\ []<>(sync.pc = "idle")

\* The periodic loop until the application shuts down, with a registry that
\* fails some of the listings.
LoopNext ==
    /\ UNCHANGED <<manual, teams, evaluated, steps>>
    /\ \/ /\ UNCHANGED sync_task
          /\ \/ \E name \in Names, labels \in GhLabelSets : GhRegister(name, labels)
             \/ \E user \in Users, name \in Names, labels \in ReqLabelSets :
                   ProvisionStart(user, name, labels)
             \/ \E req \in BagToSet(prov), minted \in BOOLEAN :
                   ProvisionFinish(req, minted)
             \/ LoopCycleStart
             \/ \E answer \in {"ok"} \cup ListFailures, log_fails \in SUBSET RowIds,
                   delete_fails \in BOOLEAN : SyncListed(answer, log_fails, delete_fails)
             \/ \E log_fails \in SUBSET RowIds, delete_fails \in BOOLEAN :
                   SyncDeleted(log_fails, delete_fails)
       \/ shutdown_event

\* A step in which no cycle's listing fails.
ListingAnswered ==
    (sync.pc = "list" /\ sync'.pc = "idle") => sync'.outcome \notin ListFailures

\* The loop starts a cycle after every interval for as long as it runs,
\* every registry call of a cycle returns or raises, and from some time on
\* the registry answers the listings.
LoopSpec ==
    /\ Init
    /\ [][LoopNext]_vars
    /\ WF_vars(LoopCycleStart /\ UNCHANGED <<manual, sync_task, teams, evaluated, steps>>)
    /\ []<>(sync.pc = "idle")
    /\ <>[][ListingAnswered]_vars

\* Provisioning by exact name and by name prefix, and deprovisioning.
PrefixNext ==
    /\ steps < MaxPrefixSteps
    /\ steps' = steps + 1
    /\ UNCHANGED <<manual, sync_task, teams>>
    /\ \/ \E user \in Users, candidates \in CandidateLists, labels \in ReqLabelSets :
             ProvisionPrefixStart(user, candidates, labels)
       \/ /\ UNCHANGED evaluated
          /\ \/ \E user \in Users, name \in Names, labels \in ReqLabelSets :
                   ProvisionStart(user, name, labels)
             \/ \E req \in BagToSet(prov), minted \in BOOLEAN :
                   ProvisionFinish(req, minted)
             \/ \E user \in Users, name \in Names, k \in RowIds, fails \in BOOLEAN :
                   DeprovStart(user, name, k, fails)
             \/ DeprovFinish

PrefixSpec == Init /\ [][PrefixNext]_vars

\* The policy evaluator alone: its functions applied to label sets under the
\* policies and teams of EvalPolicyConfigs and EvalTeamConfigs.
EvalInit ==
    /\ runners = << >>
    /\ policies \in EvalPolicyConfigs
    /\ events = {}
    /\ gh = {}
    /\ nextGid = 1
    /\ now = 0
    /\ prov = EmptyBag
    /\ verify = << >>
    /\ sync = IdleSync("none", SyncResult, 0, 0, 0)
    /\ refresh = IdleOp
    /\ deprov = IdleOp
    /\ batch = IdleOp
    /\ single = IdleOp
    /\ manual = IdleSync("none", SyncResult, 0, 0, 0)
    /\ sync_task = "running"
    /\ teams \in EvalTeamConfigs
    /\ evaluated = NoCall
    /\ steps = 0

\* A call of validate_labels.
CallValidateLabels(user_identity, requested_labels) ==
    evaluated' = [op |-> "validate_labels", user_identity |-> user_identity,
                  requested_labels |-> requested_labels,
                  invalid_labels |-> validate_labels(user_identity, requested_labels)]

\* A call of validate_labels_for_team.
CallValidateLabelsForTeam(team_id, requested_labels) ==
    evaluated' = [op |-> "validate_labels_for_team", team_id |-> team_id,
                  requested_labels |-> requested_labels,
                  raised |-> validate_labels_for_team(team_id, requested_labels)]

\* A call of verify_labels_match, and the call with the arguments swapped.
CallVerifyLabelsMatch(expected_labels, actual_labels) ==
    evaluated' = [op |-> "verify_labels_match", expected_labels |-> expected_labels,
                  actual_labels |-> actual_labels,
                  result |-> verify_labels_match(expected_labels, actual_labels),
                  swapped |-> verify_labels_match(actual_labels, expected_labels)]

\* One call in each behaviour: the functions read the tables and keep
\* nothing from one call to the next.
EvalNext ==
    /\ evaluated = NoCall
    /\ UNCHANGED <<runners, policies, events, gh, nextGid, now, prov, verify, sync,
                   refresh, deprov, batch, single, manual, sync_task, teams, steps>>
    /\ \/ \E user \in Users, labels \in EvalLabelSets : CallValidateLabels(user, labels)
       \/ \E team \in TeamIds, labels \in EvalLabelSets :
             CallValidateLabelsForTeam(team, labels)
       \/ \E expected \in EvalLabelSets, actual \in EvalLabelSets :
             CallVerifyLabelsMatch(expected, actual)

EvalSpec == EvalInit /\ [][EvalNext]_vars

\* Provisioning, deprovisioning and the verification tasks, with the labels
\* the registry reports.
VerifyNext ==
    /\ steps < MaxVerifySteps
    /\ steps' = steps + 1
    /\ UNCHANGED <<manual, sync_task, teams, evaluated>>
    /\ \/ \E name \in Names, labels \in LabelGhSets \cup GhLabelSets :
             GhRegister(name, labels)
       \/ \E r \in gh : GhRemove(r)
       \/ \E user \in Users, name \in Names, labels \in ReqLabelSets :
             ProvisionStart(user, name, labels)
       \/ \E req \in BagToSet(prov), minted \in BOOLEAN : ProvisionFinish(req, minted)
       \/ \E k \in RowIds : VerifyWake(k)
       \/ \E k \in RowIds, fetch_fails, logged, fails \in BOOLEAN :
             VerifyFetched(k, fetch_fails, logged, fails)
       \/ \E k \in RowIds : VerifyDeleted(k)
       \/ \E user \in Users, name \in Names, k \in RowIds, fails \in BOOLEAN :
             DeprovStart(user, name, k, fails)
       \/ DeprovFinish

VerifySpec == Init /\ [][VerifyNext]_vars

\* Provisioning, the clearing of expired credentials and reconciliation,
\* over a longer time.
ExpiryNext ==
    /\ steps < MaxExpirySteps
    /\ steps' = steps + 1
    /\ UNCHANGED <<manual, sync_task, teams, evaluated>>
    /\ \/ Elapse(MaxExpiryTime)
       \/ \E name \in Names, labels \in GhLabelSets : GhRegister(name, labels)
       \/ \E r \in gh : GhSetStatus(r)
       \/ \E user \in Users, name \in Names, labels \in ReqLabelSets :
             ProvisionStart(user, name, labels)
       \/ \E req \in BagToSet(prov), minted \in BOOLEAN : ProvisionFinish(req, minted)
       \/ CleanupExpiredTokens
       \/ SyncStart
       \/ \E answer \in {"ok"} \cup ListFailures, log_fails \in SUBSET RowIds,
             delete_fails \in BOOLEAN : SyncListed(answer, log_fails, delete_fails)
       \/ \E log_fails \in SUBSET RowIds, delete_fails \in BOOLEAN :
             SyncDeleted(log_fails, delete_fails)

ExpirySpec == Init /\ [][ExpiryNext]_vars

\* The periodic loop and the shutdown of the application.
ShutdownNext ==
    /\ steps < MaxShutdownSteps
    /\ steps' = steps + 1
    /\ UNCHANGED <<manual, teams, evaluated>>
    /\ \/ /\ UNCHANGED sync_task
          /\ \/ \E name \in Names, labels \in GhLabelSets : GhRegister(name, labels)
             \/ \E user \in Users, name \in Names, labels \in ReqLabelSets :
                   ProvisionStart(user, name, labels)
             \/ \E req \in BagToSet(prov), minted \in BOOLEAN :
                   ProvisionFinish(req, minted)
             \/ LoopCycleStart
             \/ \E answer \in {"ok"} \cup ListFailures, log_fails \in SUBSET RowIds,
                   delete_fails \in BOOLEAN : SyncListed(answer, log_fails, delete_fails)
             \/ \E log_fails \in SUBSET RowIds, delete_fails \in BOOLEAN :
                   SyncDeleted(log_fails, delete_fails)
       \/ shutdown_event

ShutdownSpec == Init /\ [][ShutdownNext]_vars

\* The periodic loop's cycle next to the cycle of trigger_sync.
TriggerNext ==
    /\ steps < MaxTriggerSteps
    /\ steps' = steps + 1
    /\ UNCHANGED <<sync_task, teams, evaluated>>
    /\ \/ /\ UNCHANGED manual
          /\ \/ EnvNext
             \/ \E user \in Users, name \in Names, labels \in ReqLabelSets :
                   ProvisionStart(user, name, labels)
             \/ \E req \in BagToSet(prov), minted \in BOOLEAN :
                   ProvisionFinish(req, minted)
             \/ SyncStart
             \/ \E answer \in {"ok"} \cup ListFailures, log_fails \in SUBSET RowIds,
                   delete_fails \in BOOLEAN : SyncListed(answer, log_fails, delete_fails)
             \/ \E log_fails \in SUBSET RowIds, delete_fails \in BOOLEAN :
                   SyncDeleted(log_fails, delete_fails)
       \/ TriggerStart
       \/ \E answer \in {"ok"} \cup ListFailures, log_fails \in SUBSET RowIds,
             delete_fails \in BOOLEAN : TriggerListed(answer, log_fails, delete_fails)
       \/ \E log_fails \in SUBSET RowIds, delete_fails \in BOOLEAN :
             TriggerDeleted(log_fails, delete_fails)

TriggerSpec == Init /\ [][TriggerNext]_vars

\* ------------------------------------------------------------------ claims
Range(seq) == {seq[j] : j \in 1..Len(seq)}

\* The runner k as a suspended cycle holds it (its session's object over the
\* stored row), and the stored row otherwise.
SyncView(k) ==
    IF sync.pc = "del" /\ k \in DOMAIN sync.sess
    THEN MergeRow(runners[k], sync.sess[k])
    ELSE runners[k]

\* C1: a cycle loads no runner that is deleted when it starts, its steps
\* leave every runner it has not loaded exactly as stored, its summary counts
\* the loaded runners only, and sync_runner issues no registry call for a
\* deleted runner.
C1_DeletedLeftAlone ==
    [][/\ (sync.pc = "idle" /\ sync'.pc = "list") =>
              \A k \in RowIds :
                  runners[k].status = "deleted" => k \notin Range(sync'.local_runners)
       /\ (sync' # sync) =>
              \A k \in RowIds :
                  (sync.pc = "idle" \/ k \notin Range(sync.local_runners))
                      => runners'[k] = runners[k]
       /\ (sync.pc # "idle" /\ sync'.pc = "idle" /\ sync'.outcome = "ok") =>
              /\ Total(sync'.result) = Len(sync.local_runners)
              /\ sync'.loaded = Len(sync.local_runners)
       /\ (single.pc = "idle" /\ single'.pc = "get") =>
              runners[single'.k].status # "deleted"
       /\ (single' # single) =>
              \A k \in RowIds :
                  (single.pc = "idle" \/ k # single.k) => runners'[k] = runners[k]
      ]_vars

\* C1 witness: a cycle has completed that loaded one of two runners and
\* deleted none, the other runner being deleted.
C1_Witness ==
    /\ sync.pc = "idle" /\ sync.outcome = "ok"
    /\ Len(runners) = 2 /\ sync.loaded = 1 /\ sync.result.deleted = 0
    /\ \E k \in RowIds : runners[k].status = "deleted"

\* C2: a runner whose status is deleted keeps that status in every step.
C2_DeletedNeverReversed ==
    [][\A k \in RowIds : runners[k].status = "deleted" => runners'[k].status = "deleted"]_vars

\* C3: the runners of a subject with status pending, online or offline never
\* outnumber the max_runners of the subject's policy.
C3_QuotaInvariant ==
    \A u \in Users :
        (get_policy(u).exists /\ get_policy(u).max_runners # NoMax) =>
            Cardinality({k \in RowIds : /\ runners[k].provisioned_by = u
                                         /\ runners[k].status \in NonTerminal})
                <= get_policy(u).max_runners

\* C4: every deleted runner has no registration token.
C4_DeletedHasNoToken ==
    \A k \in RowIds :
        runners[k].status = "deleted" => runners[k].registration_token = NoToken

\* C5: every pending runner has no github_runner_id.
C5_PendingHasNoExternalId ==
    \A k \in RowIds :
        runners[k].status = "pending" => runners[k].github_runner_id = NoId

\* C6: no two runners that are not deleted have the same runner_name.
C6_ActiveNamesUnique ==
    \A j, k \in RowIds :
        (j # k /\ runners[j].status # "deleted" /\ runners[k].status # "deleted")
            => runners[j].runner_name # runners[k].runner_name

\* A cycle and a second cycle run right after it against the same listing
\* and with the same runners failing to log their event: the summaries and
\* the tables after each.
TwoCycles(log_fails, delete_fails, delete_fails2) ==
    LET c1 == RunCycle(LoopStart(runners, sync.sess, gh, events), sync.local_runners,
                       sync.github_runners, log_fails, delete_fails)
        table1 == Flush(c1.table, c1.sess)
        local2 == local_runners_query(table1)
        sess2 == [k \in Range(local2) |-> Loaded(table1[k])]
        c2 == RunCycle(LoopStart(table1, sess2, c1.registry, c1.events), local2,
                       sync.github_runners, log_fails, delete_fails2)
    IN [first |-> c1.result, table1 |-> table1, second |-> c2.result,
        table2 |-> Flush(c2.table, c2.sess)]

\* The runners a suspended cycle has loaded are the stored ones.
LoadedIsCurrent ==
    /\ local_runners_query(runners) = sync.local_runners
    /\ \A k \in Range(sync.local_runners) : sync.sess[k].ld = runners[k]

C8_ListFailureChangesNothing ==
    [][\A answer \in ListFailures, log_fails \in SUBSET RowIds, delete_fails \in BOOLEAN :
          SyncListed(answer, log_fails, delete_fails) =>
              /\ UNCHANGED <<runners, events, gh>>
              /\ sync'.pc = "idle" /\ sync'.outcome = answer /\ sync'.deletes = 0
      ]_vars

\* C8 witness: a cycle that had loaded a runner has raised on its listing.
C8_Witness ==
    /\ sync.pc = "idle" /\ sync.outcome \in ListFailures /\ sync.loaded >= 1
    /\ \E k \in RowIds : runners[k].status # "deleted"

\* In a cycle run from the suspended cycle's listing: whichever runners
\* raise while their event is logged, each loaded runner is counted once,
\* the raising runners are counted in errors, and every other runner is
\* stored as it is when no runner raises.
ErrorsAreLocal ==
    \A log_fails \in SUBSET Range(sync.local_runners), delete_fails \in BOOLEAN :
        LET start == LoopStart(runners, sync.sess, gh, events)
            c == RunCycle(start, sync.local_runners, sync.github_runners,
                          log_fails, delete_fails)
            c0 == RunCycle(start, sync.local_runners, sync.github_runners,
                           {}, delete_fails)
            raised == {k \in log_fails :
                          Flush(c0.table, c0.sess)[k] # Flush(c.table, c.sess)[k]
                          \/ \E e \in c0.events \ events : e.runner_id = k}
        IN /\ Total(c.result) = Len(sync.local_runners)
           /\ c.result.errors = Cardinality(raised)
           /\ c0.result.errors = 0
           /\ \A k \in Range(sync.local_runners) \ log_fails :
                  Flush(c.table, c.sess)[k] = Flush(c0.table, c0.sess)[k]

DeletionEvent(path, k, owner) ==
    SecurityEvent(IF path = "drift" THEN "label_drift_detected"
                  ELSE "label_policy_violation", "high", owner, k, "runner_deleted")

\* The steps that resume after a delete_runner call that raised or found
\* nothing leave the runner deleted and its runner_deleted event recorded;
\* for the cycle, `always` tells whether this is asked when logging the
\* event raises too.
DeleteFailureTolerated(always) ==
    /\ \A log_fails \in SUBSET RowIds, delete_fails \in BOOLEAN, k \in RowIds :
          (/\ sync.pc = "del"
           /\ k = sync.local_runners[sync.i]
           /\ sync.answer \in {"raised", "not_found"}
           /\ SyncDeleted(log_fails, delete_fails)
           /\ always \/ k \notin log_fails) =>
              /\ SyncView(k)'.status = "deleted"
              /\ DeletionEvent(sync.path, k, runners[k].provisioned_by) \in events'
    /\ \A k \in 1..Len(verify) :
          (/\ verify[k].pc = "del"
           /\ verify'[k].pc = "done"
           /\ verify[k].answer \in {"raised", "not_found"}) =>
              /\ runners'[k].status = "deleted"
              /\ DeletionEvent("verify", k, runners[k].provisioned_by) \in events'

PolicyViolator(k, listing) ==
    LET github_runner == get_runner_by_name(listing, runners[k].runner_name)
    IN /\ github_runner # NotFound
       /\ validate_labels(runners[k].provisioned_by, github_runner.labels) # {}

\* The policy-violation path in the steps of a cycle.  A stretch of the
\* loop passes no runner whose listed labels violate its owner's policy:
\* it stops at the first one, on the policy path, with delete_runner issued
\* for the listed id.  The step that resumes from that call leaves the
\* runner deleted, its high runner_deleted event recorded, and the runner
\* counted once in policy_violations and once in deleted; `always` tells
\* whether this is asked when logging the event raises too.
PolicyPath(always) ==
    /\ (/\ sync' # sync
        /\ sync.pc \in {"list", "del"}
        /\ sync'.pc = "idle" => sync'.outcome = "ok") =>
           LET local == sync.local_runners
               from == IF sync.pc = "list" THEN 1 ELSE sync.i + 1
               upto == IF sync'.pc = "del" THEN sync'.i - 1 ELSE Len(local)
               issued == IF sync.pc = "list" THEN 0 ELSE sync.deletes
           IN /\ \A j \in from..upto : ~PolicyViolator(local[j], sync.github_runners)
              /\ (sync'.pc = "del" /\ PolicyViolator(local[sync'.i], sync.github_runners))
                    => sync'.path = "policy"
              /\ (sync'.pc = "del" /\ sync'.path = "policy") =>
                    LET listed == get_runner_by_name(sync.github_runners,
                                                     runners[local[sync'.i]].runner_name)
                    IN /\ PolicyViolator(local[sync'.i], sync.github_runners)
                       /\ sync'.github_runner = listed
                       /\ sync'.deletes = issued + 1
                       /\ sync'.answer = "deleted" =>
                              /\ get_runner_by_id(gh, listed.id) # NotFound
                              /\ get_runner_by_id(gh', listed.id) = NotFound
    /\ \A log_fails \in SUBSET RowIds, delete_fails \in BOOLEAN, k \in RowIds :
          (/\ sync.pc = "del"
           /\ sync.path = "policy"
           /\ k = sync.local_runners[sync.i]
           /\ SyncDeleted(log_fails, delete_fails)
           /\ always \/ k \notin log_fails) =>
              /\ SyncView(k)'.status = "deleted"
              /\ \E e \in events' :
                    /\ e.event_type = "label_policy_violation"
                    /\ e.severity = "high"
                    /\ e.runner_id = k
                    /\ e.action_taken = "runner_deleted"
              /\ sync'.result.policy_violations = sync.result.policy_violations + 1
              /\ sync'.result.label_drifts = sync.result.label_drifts
              /\ sync'.result.deleted >= sync.result.deleted + 1
              /\ sync.i = Len(sync.local_runners) =>
                    /\ sync'.result.deleted = sync.result.deleted + 1
                    /\ Total(sync'.result) = Total(sync.result) + 1

RegistrySystemLabels == {L_selfhosted, L_linux}

\* Whether the policy of `user_identity` allows the label, by its list or
\* by one of its patterns.
AllowedByPolicy(user_identity, label) ==
    LET policy == get_policy(user_identity) IN
    \/ ~policy.exists
    \/ L_star \in policy.allowed_labels
    \/ label \in policy.allowed_labels
    \/ \E k \in 1..Len(policy.label_patterns) :
          PatternMatches(policy.label_patterns[k], label)

\* C12: validate_labels reports no registry-assigned system label
\* (self-hosted, linux, in any letter case) of a listed runner as invalid,
\* and a cycle takes the policy-violation path only for a runner with a
\* listed label that is neither a system label nor allowed by its owner's
\* policy.
C12_SystemLabelsNeverViolate ==
    [][(sync' # sync /\ sync'.pc \in {"list", "del"}) =>
          /\ \A r \in sync'.github_runners, u \in Users :
                \A l \in validate_labels(u, r.labels) :
                    Lower(l) \notin RegistrySystemLabels
          /\ (sync'.pc = "del" /\ sync'.path = "policy") =>
                \E l \in sync'.github_runner.labels :
                    /\ Lower(l) \notin RegistrySystemLabels
                    /\ ~AllowedByPolicy(
                          runners[sync'.local_runners[sync'.i]].provisioned_by, l)
      ]_vars

\* Whether the cycle's listing holds the JIT runner k, not busy and within
\* its owner's policy, with a label set other than its provisioned_labels.
Drifted(k, listing) ==
    LET github_runner == get_runner_by_name(listing, runners[k].runner_name)
    IN /\ github_runner # NotFound
       /\ ~PolicyViolator(k, listing)
       /\ runners[k].provisioning_method = "jit"
       /\ runners[k].provisioned_labels # NullLabels
       /\ github_runner.labels # runners[k].provisioned_labels
       /\ ~github_runner.busy

\* The drift path in the steps of a cycle.  A stretch of the loop passes no
\* drifted runner: it stops at the first one, on the drift path, with
\* delete_runner issued for the listed id; no runner provisioned by
\* registration token is stopped at for drift or gets a drift event.  The
\* step that resumes from the call leaves the runner deleted, its high
\* runner_deleted drift event recorded, and the runner counted once in
\* label_drifts and once in deleted; `always` tells whether this is asked
\* when logging the event raises too.
DriftPath(always) ==
    /\ (/\ sync' # sync
        /\ sync.pc \in {"list", "del"}
        /\ sync'.pc = "idle" => sync'.outcome = "ok") =>
           LET local == sync.local_runners
               from == IF sync.pc = "list" THEN 1 ELSE sync.i + 1
               upto == IF sync'.pc = "del" THEN sync'.i - 1 ELSE Len(local)
               issued == IF sync.pc = "list" THEN 0 ELSE sync.deletes
           IN /\ \A j \in from..upto : ~Drifted(local[j], sync.github_runners)
              /\ (sync'.pc = "del" /\ Drifted(local[sync'.i], sync.github_runners))
                    => sync'.path = "drift"
              /\ (sync'.pc = "del" /\ sync'.path = "drift") =>
                    LET listed == get_runner_by_name(sync.github_runners,
                                                     runners[local[sync'.i]].runner_name)
                    IN /\ Drifted(local[sync'.i], sync.github_runners)
                       /\ sync'.github_runner = listed
                       /\ sync'.deletes = issued + 1
                       /\ sync'.answer = "deleted" =>
                              /\ get_runner_by_id(gh, listed.id) # NotFound
                              /\ get_runner_by_id(gh', listed.id) = NotFound
    /\ \A e \in events' :
          e.event_type = "label_drift_detected" =>
              runners'[e.runner_id].provisioning_method = "jit"
    /\ \A log_fails \in SUBSET RowIds, delete_fails \in BOOLEAN, k \in RowIds :
          (/\ sync.pc = "del"
           /\ sync.path = "drift"
           /\ k = sync.local_runners[sync.i]
           /\ SyncDeleted(log_fails, delete_fails)
           /\ always \/ k \notin log_fails) =>
              /\ SyncView(k)'.status = "deleted"
              /\ \E e \in events' :
                    /\ e.event_type = "label_drift_detected"
                    /\ e.severity = "high"
                    /\ e.runner_id = k
                    /\ e.action_taken = "runner_deleted"
              /\ sync'.result.label_drifts = sync.result.label_drifts + 1
              /\ sync'.result.policy_violations = sync.result.policy_violations
              /\ sync'.result.deleted >= sync.result.deleted + 1
              /\ sync.i = Len(sync.local_runners) =>
                    /\ sync'.result.deleted = sync.result.deleted + 1
                    /\ Total(sync'.result) = Total(sync.result) + 1

BusyDrifted(k, listing) ==
    LET github_runner == get_runner_by_name(listing, runners[k].runner_name)
    IN /\ github_runner # NotFound
       /\ ~PolicyViolator(k, listing)
       /\ runners[k].provisioning_method = "jit"
       /\ runners[k].provisioned_labels # NullLabels
       /\ github_runner.labels # runners[k].provisioned_labels
       /\ github_runner.busy

\* C14: with label_drift_delete_busy_runners off, a stretch of a cycle's
\* loop that meets a drifted JIT runner whose listed record is busy, and
\* logs its event, records a high logged_only drift event, does not stop
\* to delete it, and leaves the runner's status as stored.
C14_BusyDriftLoggedOnly ==
    [][\A log_fails \in SUBSET RowIds, delete_fails \in BOOLEAN, k \in RowIds :
          (/\ ~label_drift_delete_busy_runners
           /\ \/ SyncListed("ok", log_fails, delete_fails)
              \/ SyncDeleted(log_fails, delete_fails)
           /\ k \notin log_fails
           /\ \E j \in (IF sync.pc = "list" THEN 1 ELSE sync.i + 1) ..
                        Len(sync.local_runners) :
                 /\ k = sync.local_runners[j]
                 /\ sync'.pc = "del" => j <= sync'.i
           /\ BusyDrifted(k, sync.github_runners)) =>
              /\ sync'.pc = "del" => k # sync'.local_runners[sync'.i]
              /\ \E e \in events' :
                    /\ e.event_type = "label_drift_detected"
                    /\ e.severity = "high"
                    /\ e.runner_id = k
                    /\ e.action_taken = "logged_only"
              /\ SyncView(k)'.status = runners[k].status
      ]_vars

\* C15: a cycle stops to delete a runner for drift, or records a drift
\* event for it, only when its listed labels and its provisioned_labels
\* differ once the system labels are removed from both.
C15_DriftIgnoresSystemLabels ==
    [][(sync' # sync /\ sync.pc \in {"list", "del"}) =>
          /\ \A k \in RowIds :
                (/\ sync'.pc = "del"
                 /\ sync'.path = "drift"
                 /\ k = sync.local_runners[sync'.i]) =>
                    verify_labels_match(runners[k].provisioned_labels,
                                        sync'.github_runner.labels) # {}
          /\ \A e \in events' \ events :
                e.event_type = "label_drift_detected" =>
                    verify_labels_match(
                        runners[e.runner_id].provisioned_labels,
                        get_runner_by_name(sync.github_runners,
                                           runners[e.runner_id].runner_name).labels) # {}
      ]_vars

\* The runner k as the cycle reads it when it gets to it: its session's
\* object, reloaded from the stored row when a commit has expired it.
CycleHolds(k) == Touch(runners, sync.sess, k)[k].wk

\* Whether the cycle's listing holds no runner with the name of runner k.
Absent(k, listing) ==
    get_runner_by_name(listing, runners[k].runner_name) = NotFound

\* C16: a stretch of a successful cycle's loop leaves every runner it gets
\* to, that the cycle holds as online or offline and that its listing does
\* not hold, deleted with deleted_at set; the runners the cycle has marked
\* deleted stay so in its later steps; and a cycle that runs on the runners
\* as stored and issues no delete counts as deleted exactly the runners it
\* leaves deleted.
C16_RegisteredAbsentDeleted ==
    [][(/\ sync' # sync
        /\ sync.pc \in {"list", "del"}
        /\ sync'.pc = "idle" => sync'.outcome = "ok") =>
           /\ \A k \in RowIds :
                 (/\ \E j \in (IF sync.pc = "list" THEN 1 ELSE sync.i + 1) ..
                              (IF sync'.pc = "del" THEN sync'.i - 1
                               ELSE Len(sync.local_runners)) :
                        k = sync.local_runners[j]
                  /\ CycleHolds(k).status \in {"online", "offline"}
                  /\ Absent(k, sync.github_runners)) =>
                     /\ SyncView(k)'.status = "deleted"
                     /\ SyncView(k)'.deleted_at = now
           /\ \A k \in RowIds :
                 (/\ sync.pc = "del"
                  /\ \E j \in 1..(sync.i - 1) : k = sync.local_runners[j]
                  /\ Absent(k, sync.github_runners)
                  /\ SyncView(k).status = "deleted") =>
                     /\ SyncView(k)'.status = "deleted"
                     /\ SyncView(k)'.deleted_at = SyncView(k).deleted_at
           /\ (sync.pc = "list" /\ sync'.pc = "idle" /\ LoadedIsCurrent) =>
                 sync'.result.deleted =
                     Cardinality({k \in Range(sync.local_runners) :
                                     runners'[k].status = "deleted"})
      ]_vars

\* C16 witness: a cycle has completed without a delete call and has counted
\* one deletion, of a runner that had been registered and is not in the
\* registry.
C16_Witness ==
    /\ sync.pc = "idle" /\ sync.outcome = "ok" /\ sync.loaded = 1
    /\ sync.deletes = 0 /\ sync.result.deleted = 1 /\ Total(sync.result) = 1
    /\ \E k \in RowIds :
          /\ runners[k].status = "deleted"
          /\ runners[k].registered_at # NoTime
          /\ runners[k].deleted_at # NoTime
          /\ ~ \E r \in gh : r.name = runners[k].runner_name

\* Whether the credential of a runner has expired: its expiry, when set, is
\* before now; when not set, the runner was created before the stale cutoff.
CredentialExpired(runner) ==
    \/ /\ runner.registration_token_expires_at # NoTime
       /\ runner.registration_token_expires_at < now
    \/ /\ runner.registration_token_expires_at = NoTime
       /\ runner.created_at + cleanup_stale_runners_hours < now

\* C17: a stretch of a cycle's loop leaves every runner it gets to, that
\* the cycle holds as pending and that its listing does not hold, deleted
\* when its credential has expired and otherwise as it is stored; and a
\* cycle that runs on the runners as stored, all of them pending and not
\* listed, counts the expired ones as deleted and the others as unchanged.
C17_PendingAbsentExpiry ==
    [][(/\ sync' # sync
        /\ sync.pc \in {"list", "del"}
        /\ sync'.pc = "idle" => sync'.outcome = "ok") =>
           /\ \A k \in RowIds :
                 (/\ \E j \in (IF sync.pc = "list" THEN 1 ELSE sync.i + 1) ..
                              (IF sync'.pc = "del" THEN sync'.i - 1
                               ELSE Len(sync.local_runners)) :
                        k = sync.local_runners[j]
                  /\ CycleHolds(k).status = "pending"
                  /\ Absent(k, sync.github_runners)) =>
                     IF CredentialExpired(CycleHolds(k))
                     THEN /\ SyncView(k)'.status = "deleted"
                          /\ SyncView(k)'.deleted_at = now
                     ELSE /\ SyncView(k)' = runners[k]
                          /\ runners[k].status = "pending" =>
                                SyncView(k)'.status = "pending"
           /\ (/\ sync.pc = "list" /\ sync'.pc = "idle" /\ LoadedIsCurrent
               /\ \A k \in Range(sync.local_runners) :
                     /\ runners[k].status = "pending"
                     /\ Absent(k, sync.github_runners)) =>
                 /\ sync'.result.deleted =
                       Cardinality({k \in Range(sync.local_runners) :
                                       CredentialExpired(runners[k])})
                 /\ sync'.result.unchanged =
                       Cardinality({k \in Range(sync.local_runners) :
                                       ~CredentialExpired(runners[k])})
                 /\ sync'.result.updated = 0 /\ sync'.result.errors = 0
      ]_vars

\* C17 witness: a cycle has completed that counted its one runner
\* unchanged, and the runner is pending, not in the registry, without a
\* credential expiry and not older than the stale cutoff.
C17_Witness ==
    /\ sync.pc = "idle" /\ sync.outcome = "ok" /\ sync.loaded = 1
    /\ sync.result.unchanged = 1 /\ Total(sync.result) = 1
    /\ \E k \in RowIds :
          /\ runners[k].status = "pending"
          /\ runners[k].registration_token_expires_at = NoTime
          /\ ~CredentialExpired(runners[k])
          /\ ~ \E r \in gh : r.name = runners[k].runner_name

\* Whether the cycle's listing holds the runner k within its owner's
\* policy and with no drift for the cycle to handle.
NormalSync(k, listing) ==
    /\ ~Absent(k, listing)
    /\ ~PolicyViolator(k, listing)
    /\ ~Drifted(k, listing)

\* The fields the status sync writes, as it leaves them for the stored
\* runner `runner` and the listed record.
Synchronised(runner, github_runner) ==
    [runner EXCEPT
        !.status = github_runner.status,
        !.github_runner_id = github_runner.id,
        !.registered_at = IF runner.registered_at = NoTime THEN now
                          ELSE runner.registered_at,
        !.registration_token = NoToken,
        !.registration_token_expires_at = NoTime]

\* C18: a stretch of a cycle's loop that does not raise for the runner
\* leaves every listed runner it gets to, within policy and with no drift
\* to handle, with the listed status and id, registered_at set if it was
\* not, no credential and no expiry, and nothing else changed; and a cycle
\* that runs in one stretch on such runners as stored counts as updated
\* those it has changed and the others as unchanged.
C18_NormalStatusSync ==
    [][\A log_fails \in SUBSET RowIds, delete_fails \in BOOLEAN :
          (\/ SyncListed("ok", log_fails, delete_fails)
           \/ SyncDeleted(log_fails, delete_fails)) =>
             /\ \A k \in RowIds \ log_fails :
                   (/\ \E j \in (IF sync.pc = "list" THEN 1 ELSE sync.i + 1) ..
                                (IF sync'.pc = "del" THEN sync'.i - 1
                                 ELSE Len(sync.local_runners)) :
                          k = sync.local_runners[j]
                    /\ sync.sess[k].exp \/ sync.sess[k].wk = runners[k]
                    /\ NormalSync(k, sync.github_runners)) =>
                       SyncView(k)' =
                           Synchronised(runners[k],
                                        get_runner_by_name(sync.github_runners,
                                                           runners[k].runner_name))
             /\ (/\ sync.pc = "list" /\ sync'.pc = "idle" /\ LoadedIsCurrent
                 /\ log_fails = {}
                 /\ \A k \in Range(sync.local_runners) :
                       NormalSync(k, sync.github_runners)) =>
                   /\ sync'.result.updated =
                         Cardinality({k \in Range(sync.local_runners) :
                                         runners'[k] # runners[k]})
                   /\ sync'.result.unchanged =
                         Cardinality({k \in Range(sync.local_runners) :
                                         runners'[k] = runners[k]})
                   /\ sync'.result.deleted = 0 /\ sync'.result.errors = 0
      ]_vars

\* C18 witness: a cycle has completed that counted its one runner
\* unchanged, the runner being stored with the status and id of its
\* registry record, without credential, and registered before now.
C18_Witness ==
    /\ sync.pc = "idle" /\ sync.outcome = "ok" /\ sync.loaded = 1
    /\ sync.result.unchanged = 1 /\ Total(sync.result) = 1
    /\ \E k \in RowIds, r \in gh :
          /\ r.name = runners[k].runner_name
          /\ runners[k].status = r.status
          /\ runners[k].github_runner_id = r.id
          /\ runners[k].registration_token = NoToken
          /\ runners[k].registration_token_expires_at = NoTime
          /\ runners[k].registered_at # NoTime
          /\ runners[k].registered_at < now

\* C19: no step sets the status of a stored runner to pending, and every
\* step of a cycle or of a verification task that changes the status of a
\* stored runner takes it from pending to online or offline for a runner
\* the cycle's listing holds, from pending to deleted for a runner the
\* listing does not hold and whose credential has expired, from online or
\* offline to deleted, or between online and offline.
C19_StatusEdges ==
    [][/\ \A k \in RowIds :
             runners'[k].status = "pending" => runners[k].status = "pending"
       /\ (\/ sync' # sync
           \/ \E k \in 1..Len(verify) : verify'[k] # verify[k]) =>
             \A k \in RowIds :
                 LET old == runners[k].status
                     new == runners'[k].status
                 IN \/ old = new
                    \/ /\ old = "pending" /\ new \in {"online", "offline"}
                       /\ sync' # sync
                       /\ ~Absent(k, sync.github_runners)
                    \/ /\ old = "pending" /\ new = "deleted"
                       /\ sync' # sync
                       /\ Absent(k, sync.github_runners)
                       /\ CredentialExpired(runners[k])
                    \/ old \in {"online", "offline"} /\ new = "deleted"
                    \/ old \in {"online", "offline"} /\ new \in {"online", "offline"}
      ]_vars

\* C20: the cycle of the periodic loop and the cycle of trigger_sync are
\* never in progress at once.
C20_OneCycleAtATime ==
    ~(sync.pc # "idle" /\ manual.pc # "idle")

\* C21: once its task is cancelled the loop starts no cycle, and the step
\* that cancels the task leaves a cycle that is waiting for a registry call
\* waiting for it.
C21_ShutdownLetsCallFinish ==
    [][/\ (sync_task = "cancelled" /\ sync.pc = "idle") => sync'.pc = "idle"
       /\ (sync_task = "running" /\ sync_task' = "cancelled") => sync' = sync
      ]_vars

\* C22: a cycle that starts with no runner other than deleted ones returns
\* without a list_runners call; any other cycle calls list_runners once,
\* when it starts, keeps that listing through all its steps whatever the
\* registry becomes, and has made one list_runners call when it ends.
C22_OneListingPerCycle ==
    [][/\ (sync.pc = "idle" /\ sync' # sync) =>
             IF \E k \in RowIds : runners[k].status \in NonTerminal
             THEN /\ sync'.pc = "list"
                  /\ sync'.github_runners = gh
             ELSE /\ sync'.pc = "idle" /\ sync'.outcome = "ok"
                  /\ sync'.lists = 0 /\ sync'.loaded = 0
       /\ (sync.pc \in {"list", "del"} /\ sync'.pc = "del") =>
             /\ sync'.github_runners = sync.github_runners
             /\ sync'.lists = 1
       /\ (sync.pc \in {"list", "del"} /\ sync'.pc = "idle") => sync'.lists = 1
      ]_vars

\* C22 witness: a cycle over two runners has completed with one
\* list_runners call.
C22_Witness ==
    /\ sync.pc = "idle" /\ sync.outcome = "ok"
    /\ sync.loaded = 2 /\ sync.lists = 1
    /\ Cardinality({runners[k].runner_name : k \in RowIds}) = 2

\* The reasons for which provision_runner(user, runner_name, labels) fails
\* before it asks for a credential, read from the tables: the name is held by
\* a runner that is not deleted, a requested label is neither a system label
\* nor allowed by the user's policy, or the user's count has reached
\* max_runners.
ProvisionRejected(user, runner_name, labels) ==
    \/ \E k \in RowIds : /\ runners[k].runner_name = runner_name
                         /\ runners[k].status # "deleted"
    \/ \E l \in labels : IsUserLabel(l) /\ ~AllowedByPolicy(user, l)
    \/ /\ policies[user].exists
       /\ policies[user].max_runners # NoMax
       /\ active_runner_count(user) >= policies[user].max_runners

\* C23: a provision_runner call that fails on the name, the labels or the
\* quota suspends no request, stores and changes no runner row and creates
\* no verification task; a request that ends without a new row (the
\* credential call failed) changes no row and creates no task either.
C23_FailedProvisionStoresNothing ==
    [][/\ \A user \in Users, runner_name \in Names, labels \in ReqLabelSets :
             (ProvisionStart(user, runner_name, labels)
                 /\ ProvisionRejected(user, runner_name, labels))
             => (prov' = prov /\ runners' = runners /\ verify' = verify)
       /\ (BagCardinality(prov') < BagCardinality(prov)
              /\ Len(runners') = Len(runners))
             => (runners' = runners /\ verify' = verify)
       /\ Len(verify') = Len(runners')
      ]_vars

\* C23 witness: one request was rejected for its labels and one for the
\* quota; the table holds the one runner provisioned before, with its task.
C23_Witness ==
    /\ \E e \in events : e.event_type = "label_policy_violation"
                           /\ e.action_taken = "rejected"
    /\ \E e \in events : e.event_type = "quota_exceeded"
                           /\ e.action_taken = "rejected"
    /\ Len(runners) = 1 /\ Len(verify) = 1
    /\ prov = EmptyBag

\* C24: a provision_runner call that passes the name check and the label
\* check is rejected, with the low-severity quota_exceeded event in the
\* table, exactly when the user's policy has a max_runners and the user's
\* pending, online and offline runners number at least max_runners;
\* otherwise it goes on to ask for a credential and logs nothing.
C24_QuotaRejection ==
    [][\A user \in Users, runner_name \in Names, labels \in ReqLabelSets :
          (/\ ProvisionStart(user, runner_name, labels)
           /\ ~ _is_runner_name_active(runner_name)
           /\ validate_labels(user, labels) = {})
          => LET current == Cardinality({k \in RowIds :
                                /\ runners[k].provisioned_by = user
                                /\ runners[k].status \in NonTerminal})
             IN IF /\ policies[user].exists
                   /\ policies[user].max_runners # NoMax
                   /\ current >= policies[user].max_runners
                THEN /\ prov' = prov
                     /\ SecurityEvent("quota_exceeded", "low", user, 0, "rejected")
                            \in events'
                ELSE /\ prov' # prov
                     /\ events' = events
      ]_vars

\* The requested labels violate the user's policy: one of them is neither a
\* system label nor allowed by the policy.
LabelsViolate(user, labels) ==
    \E l \in labels : IsUserLabel(l) /\ ~AllowedByPolicy(user, l)

\* What a provision_runner call rejected for its labels leaves: the
\* medium-severity event in the table, no other new event, and no request
\* suspended on the credential call.
RejectedForLabels(user) ==
    LET event == SecurityEvent("label_policy_violation", "medium", user, 0, "rejected")
    IN /\ event \in events'
       /\ events' \ events \subseteq {event}
       /\ prov' = prov

\* C25 as stated: every provision_runner call whose labels violate the
\* user's policy logs the medium-severity event and is rejected before the
\* quota check and the credential call.
C25_LabelRejectionFirst ==
    [][/\ \A user \in Users, runner_name \in Names, labels \in ReqLabelSets :
             (ProvisionStart(user, runner_name, labels) /\ LabelsViolate(user, labels))
             => RejectedForLabels(user)
       /\ \A req \in BagToSet(prov') : ~LabelsViolate(req.user, req.labels)
      ]_vars

\* C25 amended: a provision_runner call whose name is not held by a runner
\* that is not deleted and whose labels violate the user's policy logs the
\* medium-severity event and no quota event, and is rejected before the
\* credential call; no request with violating labels is ever suspended on
\* the credential call, whatever its name.
C25_LabelRejectionAfterNameCheck ==
    [][/\ \A user \in Users, runner_name \in Names, labels \in ReqLabelSets :
             (/\ ProvisionStart(user, runner_name, labels)
              /\ ~ \E k \in RowIds : /\ runners[k].runner_name = runner_name
                                      /\ runners[k].status # "deleted"
              /\ LabelsViolate(user, labels))
             => RejectedForLabels(user)
       /\ \A req \in BagToSet(prov') : ~LabelsViolate(req.user, req.labels)
      ]_vars

\* C25 witness: a request was rejected for its labels while the user's one
\* runner was pending; no quota event was logged.
C25_Witness ==
    /\ SecurityEvent("label_policy_violation", "medium", "u1", 0, "rejected") \in events
    /\ ~ \E e \in events : e.event_type = "quota_exceeded"
    /\ Len(runners) = 1 /\ runners[1].status = "pending"
    /\ prov = EmptyBag

\* The labels of a set that are not system labels in the registry's sense
\* (self-hosted and the operating system, in any letter case).
NonSystem(labels) == {l \in labels : Lower(l) \notin RegistrySystemLabels}

\* The verification task of runner k changes nothing and ends.
VerifyNothing(k) ==
    /\ verify'[k].pc = "done"
    /\ UNCHANGED <<runners, events, gh>>

\* C26: the verification task that wakes for a deleted runner changes
\* nothing; on the registry's answer, and with an events table that takes
\* the event, it changes nothing when the registry has no record or when the
\* record's non-system labels equal the requested ones, and otherwise logs
\* the high-severity event with action runner_deleted and goes on to the
\* external delete; after the delete,
\* whatever its outcome, it marks the runner deleted and touches no other
\* row.
C26_VerificationTask ==
    [][\A k \in 1..Len(verify) :
          /\ (VerifyWake(k) /\ runners[k].status = "deleted") => VerifyNothing(k)
          /\ \A fails \in BOOLEAN :
                VerifyFetched(k, FALSE, TRUE, fails) =>
                   LET github_runner == verify[k].github_runner IN
                   IF github_runner = NotFound THEN VerifyNothing(k)
                   ELSE IF NonSystem(github_runner.labels)
                              = NonSystem(verify[k].expected_labels)
                   THEN VerifyNothing(k)
                   ELSE /\ SecurityEvent("label_policy_violation", "high",
                                         runners[k].provisioned_by, k, "runner_deleted")
                              \in events'
                        /\ verify'[k].pc = "del"
                        /\ gh' \in {gh, {r \in gh : r.id # github_runner.id}}
                        /\ runners' = runners
          /\ VerifyDeleted(k) =>
                /\ runners'[k].status = "deleted"
                /\ \A j \in RowIds \ {k} : runners'[j] = runners[j]
                /\ UNCHANGED <<events, gh>>
      ]_vars

\* Whether a label is a system label: it starts, in any letter case, with
\* self-hosted or with the name of an operating system.
SystemLabel(label) ==
    \E prefix \in RegistrySystemLabels :
        /\ Len(label) >= Len(prefix)
        /\ \A i \in 1..Len(prefix) : LowerChar(label[i]) = prefix[i]

\* Whether one of the patterns is a regular expression and matches the label
\* from its start.
MatchedFromStart(patterns, label) ==
    \E i \in 1..Len(patterns) :
        /\ patterns[i].valid
        /\ Len(label) >= Len(patterns[i].text)
        /\ \A j \in 1..Len(patterns[i].text) : label[j] = patterns[i].text[j]

\* C27: validate_labels succeeds exactly when the user has no policy, or the
\* allowed labels hold "*", or every requested label that is not a system
\* label is an allowed label or is matched from its start by a valid
\* pattern; when it fails its invalid_labels are the requested non-system
\* labels that are neither.
C27_ValidateLabels ==
    evaluated.op = "validate_labels" =>
        LET policy == policies[evaluated.user_identity]
            neither == {l \in evaluated.requested_labels :
                           /\ ~SystemLabel(l)
                           /\ l \notin policy.allowed_labels
                           /\ ~MatchedFromStart(policy.label_patterns, l)}
            succeeds == evaluated.invalid_labels = {}
        IN /\ succeeds <=> \/ ~policy.exists
                            \/ L_star \in policy.allowed_labels
                            \/ neither = {}
           /\ ~succeeds => evaluated.invalid_labels = neither

\* C28: for a team that exists and is active, validate_labels_for_team,
\* with the system labels removed from the request, fails with the required
\* labels the request lacks when there is one; otherwise fails with the
\* requested labels that are neither required nor matched by a valid
\* optional pattern when there is one; otherwise succeeds.
C28_ValidateLabelsForTeam ==
    (/\ evaluated.op = "validate_labels_for_team"
     /\ teams[evaluated.team_id].exists
     /\ teams[evaluated.team_id].is_active)
    => LET team == teams[evaluated.team_id]
           request == {l \in evaluated.requested_labels : ~SystemLabel(l)}
           missing == {l \in team.required_labels : l \notin request}
           extra == {l \in request :
                        /\ l \notin team.required_labels
                        /\ ~MatchedFromStart(team.optional_label_patterns, l)}
       IN IF missing # {}
          THEN evaluated.raised =
                  [error |-> "LabelPolicyViolation", invalid_labels |-> missing]
          ELSE IF extra # {}
          THEN evaluated.raised =
                  [error |-> "LabelPolicyViolation", invalid_labels |-> extra]
          ELSE evaluated.raised.error = "none"

\* C29: verify_labels_match gives the same set with its arguments swapped,
\* the empty set for equal arguments, and in every case the labels that are
\* in one argument and not in the other once the system labels are removed
\* from both.
C29_VerifyLabelsMatchSymmetric ==
    evaluated.op = "verify_labels_match" =>
        LET A == {l \in evaluated.expected_labels : ~SystemLabel(l)}
            B == {l \in evaluated.actual_labels : ~SystemLabel(l)}
        IN /\ evaluated.result = evaluated.swapped
           /\ evaluated.expected_labels = evaluated.actual_labels
                 => evaluated.result = {}
           /\ evaluated.result = {l \in A \cup B : l \notin A \cap B}

\* The registry holds a runner named `name` whose labels violate the policy
\* of the user whose runner of that name a cycle has marked deleted for a
\* policy violation, and no runner of that name is left that a cycle would
\* load.
LeftInRegistry(name) ==
    /\ sync.pc = "idle"
    /\ \E r \in gh, k \in RowIds :
          /\ r.name = name
          /\ runners[k].runner_name = name
          /\ runners[k].status = "deleted"
          /\ SecurityEvent("label_policy_violation", "high",
                           runners[k].provisioned_by, k, "runner_deleted") \in events
          /\ validate_labels(runners[k].provisioned_by, r.labels) # {}
    /\ \A k \in RowIds : runners[k].runner_name = name => runners[k].status = "deleted"

\* A cycle is calling delete_runner for the registry's runner named `name`,
\* or the registry no longer holds a runner of that name.
Reexamined(name) ==
    \/ sync.pc = "del" /\ sync.github_runner.name = name
    \/ ~ \E r \in gh : r.name = name

\* C30: a violating runner that is in the registry after its local runner
\* was marked deleted for the violation (the external delete failed, or a
\* runner registered under the name again) is, in some later cycle, detected
\* again and deleted again.
C30_ViolationReexamined ==
    \A name \in Names : LeftInRegistry(name) ~> Reexamined(name)

\* C31: a deprovision_runner call by the owner on a runner that is not
\* deleted (here one provisioned with a registration token) ends, whether or not it had to call the registry and whatever the
\* registry answered, with the runner deleted, its deleted_at set and its
\* credential and the credential's expiry cleared.
C31_DeprovisionAlwaysDeletes ==
    [][\A k \in {j \in RowIds : runners[j].provisioning_method = "registration_token"} :
          (\/ deprov.pc = "del" /\ deprov.k = k /\ deprov'.pc = "idle"
           \/ \E user \in Users, runner_name \in Names, fails \in BOOLEAN :
                 /\ DeprovStart(user, runner_name, k, fails)
                 /\ deprov'.pc = "idle")
          => /\ runners'[k].status = "deleted"
             /\ runners'[k].deleted_at # NoTime
             /\ runners'[k].registration_token = NoToken
             /\ runners'[k].registration_token_expires_at = NoTime
      ]_vars

\* Whether the cycle's listing holds the JIT runner k with labels that both
\* violate its owner's policy and differ from its provisioned_labels.
PolicyAndDrift(k, listing) ==
    LET github_runner == get_runner_by_name(listing, runners[k].runner_name)
    IN /\ github_runner # NotFound
       /\ LabelsViolate(runners[k].provisioned_by, github_runner.labels)
       /\ runners[k].provisioning_method = "jit"
       /\ runners[k].provisioned_labels # NullLabels
       /\ github_runner.labels # runners[k].provisioned_labels

\* The order of the two checks in the steps of a cycle.  A stretch of the
\* loop passes no runner that both violates the policy and has drifted, and
\* logs no drift event for one: it stops at it on the policy path, busy or
\* not, with one delete_runner call issued.  The step that resumes from the
\* call issues no second call for it, records the policy event and no drift
\* event, leaves the runner deleted and counts it in policy_violations and
\* not in label_drifts; `always` tells whether this is asked when logging
\* the event raises too.
PolicyBeforeDrift(always) ==
    /\ (/\ sync' # sync
        /\ sync.pc \in {"list", "del"}
        /\ sync'.pc = "idle" => sync'.outcome = "ok") =>
           LET local == sync.local_runners
               from == IF sync.pc = "list" THEN 1 ELSE sync.i + 1
               upto == IF sync'.pc = "del" THEN sync'.i - 1 ELSE Len(local)
               issued == IF sync.pc = "list" THEN 0 ELSE sync.deletes
           IN /\ \A j \in from..upto : ~PolicyAndDrift(local[j], sync.github_runners)
              /\ (sync'.pc = "del" /\ PolicyAndDrift(local[sync'.i], sync.github_runners))
                    => /\ sync'.path = "policy"
                       /\ sync'.deletes = issued + 1
              /\ sync'.pc = "idle" => sync'.deletes = issued
              /\ \A e \in events' \ events :
                    e.event_type = "label_drift_detected" =>
                        ~PolicyAndDrift(e.runner_id, sync.github_runners)
    /\ \A log_fails \in SUBSET RowIds, delete_fails \in BOOLEAN, k \in RowIds :
          (/\ sync.pc = "del"
           /\ k = sync.local_runners[sync.i]
           /\ PolicyAndDrift(k, sync.github_runners)
           /\ SyncDeleted(log_fails, delete_fails)
           /\ always \/ k \notin log_fails) =>
              /\ SyncView(k)'.status = "deleted"
              /\ SecurityEvent("label_policy_violation", "high",
                               runners[k].provisioned_by, k, "runner_deleted") \in events'
              /\ sync'.result.policy_violations = sync.result.policy_violations + 1
              /\ sync'.result.label_drifts = sync.result.label_drifts

LoadedWhere(P(_, _)) ==
    {j \in 1..Len(sync.local_runners) : P(sync.local_runners[j], sync.github_runners)}

Spared(k) ==
    SecurityEvent("label_drift_detected", "high", runners[k].provisioned_by, k,
                  "logged_only") \in events

\* A runner spared for being busy, in the steps of the later cycles.  A
\* stretch of the loop that meets it busy and drifted again records the
\* logged_only event and does not stop to delete it; a stretch does not pass
\* it once it is listed drifted and no longer busy, but stops at it on the
\* drift path, and the step that resumes from the delete_runner call leaves
\* it deleted; `always` tells whether this is asked when logging the event
\* raises too.
SparedThenDeleted(always) ==
    /\ \A log_fails \in SUBSET RowIds, delete_fails \in BOOLEAN, k \in RowIds :
          (/\ Spared(k)
           /\ always \/ log_fails = {}
           /\ sync.pc \in {"list", "del"} /\ sync' # sync
           /\ \/ SyncListed("ok", log_fails, delete_fails)
              \/ SyncDeleted(log_fails, delete_fails)
           /\ \E j \in (IF sync.pc = "list" THEN 1 ELSE sync.i + 1) ..
                        Len(sync.local_runners) :
                 /\ k = sync.local_runners[j]
                 /\ sync'.pc = "del" => j <= sync'.i) =>
              /\ BusyDrifted(k, sync.github_runners) =>
                    /\ sync'.pc = "del" => k # sync'.local_runners[sync'.i]
                    /\ Spared(k)'
                    /\ runners'[k].status # "deleted"
                    /\ sync'.pc = "idle" =>
                          sync'.result.errors =
                              IF sync.pc = "list" THEN 0 ELSE sync.result.errors
              /\ Drifted(k, sync.github_runners) =>
                    /\ sync'.pc = "del"
                    /\ k = sync'.local_runners[sync'.i]
                    /\ sync'.path = "drift"
    /\ \A log_fails \in SUBSET RowIds, delete_fails \in BOOLEAN, k \in RowIds :
          (/\ sync.pc = "del"
           /\ k = sync.local_runners[sync.i]
           /\ Spared(k)
           /\ Drifted(k, sync.github_runners)
           /\ SyncDeleted(log_fails, delete_fails)
           /\ always \/ k \notin log_fails) =>
              SyncView(k)'.status = "deleted"

FailedCycle(k) ==
    /\ k \in RowIds
    /\ runners[k].status # "deleted"
    /\ sync.pc = "idle"
    /\ sync.outcome \in ListFailures

\* A cycle has listed the registry and run its loop over every runner it
\* loaded.
CycleCompleted ==
    /\ sync.pc = "idle"
    /\ sync.outcome = "ok"
    /\ sync.lists = 1
    /\ sync.loaded >= 1
    /\ Total(sync.result) = sync.loaded

\* C35: a cycle that fails on its listing ends with the error as the last
\* result and the loop's task still running, only shutdown_event stops the
\* task, and as long as the task is not cancelled and the registry does not
\* fail for ever, a later cycle lists the registry and runs its loop over
\* every runner the failed cycle left undeleted.
C35_LoopSurvivesFailure ==
    /\ [][/\ (sync.pc = "list" /\ sync'.pc = "idle" /\ sync_task' = "running") =>
                \E answer \in ListFailures \cup {"ok"} :
                    /\ sync'.outcome = answer
                    /\ answer = "ok" <=> sync'.lists = 1 /\ Total(sync'.result) = sync'.loaded
           /\ sync_task' # sync_task => shutdown_event
         ]_vars
    /\ \A k \in 1..MaxRunners :
          FailedCycle(k) ~>
              \/ sync_task = "cancelled"
              \/ k \in RowIds /\ runners[k].status = "deleted"
              \/ CycleCompleted

\* C35 witness: a cycle of the running loop has failed with a rate-limit
\* error on its listing, which is its last result, and left a pending runner
\* undeleted.
C35_Witness ==
    /\ sync_task = "running"
    /\ sync.pc = "idle"
    /\ sync.outcome = "SyncRateLimitedError"
    /\ sync.lists = 1
    /\ \E k \in RowIds : FailedCycle(k) /\ runners[k].status = "pending"

\* C36: a provision_runner call with a name prefix fails on the name only
\* when the initial candidate and each of the 5 retries is the name of a
\* runner that is not deleted, and a call that goes on uses one of its
\* candidates, which no runner that is not deleted holds.
C36_PrefixNameAttempts ==
    [][(evaluated' # evaluated /\ evaluated'.op = "provision_runner") =>
          LET candidates == evaluated'.candidates
              Active(name) == \E k \in RowIds : /\ runners[k].runner_name = name
                                                /\ runners[k].status # "deleted"
          IN IF evaluated'.runner_name = NameError
             THEN \A n \in 1..6 : Active(candidates[n])
             ELSE /\ \E n \in 1..6 : candidates[n] = evaluated'.runner_name
                  /\ ~Active(evaluated'.runner_name)
      ]_vars

\* C37: when a cycle suspends on delete_runner for its i-th runner, its
\* counters updated, deleted, unchanged and errors sum to the i - 1 runners
\* before it; when it completes they sum to the number of runners it
\* loaded, which are the runners not deleted when it started; and at both
\* points policy_violations + label_drifts is at most deleted.
C37_EveryRunnerCountedOnce ==
    [][/\ (sync.pc = "idle" /\ sync'.pc = "list") =>
             Len(sync'.local_runners) =
                 Cardinality({k \in RowIds : runners[k].status # "deleted"})
       /\ (sync.pc \in {"list", "del"} /\ sync'.pc = "del") =>
             /\ sync'.result.updated + sync'.result.deleted
                  + sync'.result.unchanged + sync'.result.errors = sync'.i - 1
             /\ sync'.result.policy_violations + sync'.result.label_drifts
                  <= sync'.result.deleted
       /\ (sync.pc \in {"list", "del"} /\ sync'.pc = "idle" /\ sync'.outcome = "ok") =>
             /\ sync'.result.updated + sync'.result.deleted
                  + sync'.result.unchanged + sync'.result.errors = sync'.loaded
             /\ sync'.loaded = Len(sync.local_runners)
             /\ sync'.result.policy_violations + sync'.result.label_drifts
                  <= sync'.result.deleted
      ]_vars

\* C37 witness: a cycle over one runner has completed that issued
\* delete_runner for it, failed to log the event and counted the runner in
\* errors and nowhere else.
C37_Witness ==
    /\ sync.pc = "idle" /\ sync.outcome = "ok"
    /\ sync.loaded = 1
    /\ sync.deletes = 1
    /\ sync.result.errors = 1
    /\ sync.result.deleted = 0
    /\ sync.result.policy_violations + sync.result.label_drifts = 0
    /\ \E k \in RowIds : runners[k].status # "deleted"

\* C38: in every state, every runner whose status is online or offline has
\* no credential and no credential expiry; and the step that takes a runner
\* from pending to online or offline leaves it without credential and
\* expiry and with registered_at set.
C38_RegisteredHasNoCredential ==
    /\ [](\A k \in RowIds :
            runners[k].status \in {"online", "offline"} =>
                /\ runners[k].registration_token = NoToken
                /\ runners[k].registration_token_expires_at = NoTime)
    /\ [][\A k \in RowIds :
            (runners[k].status = "pending" /\ runners'[k].status \in {"online", "offline"}) =>
                /\ runners'[k].registration_token = NoToken
                /\ runners'[k].registration_token_expires_at = NoTime
                /\ runners'[k].registered_at # NoTime
         ]_vars

\* C38 witness: a runner provisioned with a registration token, which was
\* stored with it, is online, registered, and holds no credential.
C38_Witness ==
    \E k \in RowIds :
        /\ runners[k].provisioning_method = "registration_token"
        /\ runners[k].status = "online"
        /\ runners[k].registered_at # NoTime
        /\ runners[k].registration_token = NoToken
        /\ runners[k].registration_token_expires_at = NoTime

\* The runner_deleted event of runner k on a path of the cycle.
DeletedEvent(k, path) ==
    SecurityEvent(IF path = "policy" THEN "label_policy_violation"
                                     ELSE "label_drift_detected",
                  "high", runners[k].provisioned_by, k, "runner_deleted")

C40_InterleavedProvisionsKeepQuota ==
    [][\A req \in BagToSet(prov) :
          (/\ ProvisionFinish(req, TRUE)
           /\ Len(runners') = Len(runners) + 1
           /\ get_policy(req.user).exists
           /\ get_policy(req.user).max_runners # NoMax) =>
              Cardinality({k \in RowIds :
                              /\ runners[k].provisioned_by = req.user
                              /\ runners[k].status \in {"pending", "online", "offline"}})
                  < get_policy(req.user).max_runners
      ]_vars

====
